---- MODULE Spec2Model ----
(***************************************************************************)
(* A model of the cbus4py codec (src/cbus4py/cbus4py.py): the CAN header,  *)
(* the opcode catalog, the CBUS message and the ASCII network frame.       *)
(* Bytes are integers; text is a sequence of ASCII codes.  An operation    *)
(* that raises yields a value whose kind is the name of the exception.     *)
(***************************************************************************)
EXTENDS Integers, Sequences, FiniteSets, TLC

VARIABLES hop, header, mop, message, buffer, frames, fin, encoded,
          other, equal, todo, scans

vars == <<hop, header, mop, message, buffer, frames, fin, encoded,
          other, equal, todo, scans>>

hvars == <<hop, header>>

mvars == <<mop, message>>

fvars == <<buffer, frames, fin, encoded>>

\* the operands of == and the calls of a sequence of scans
xvars == <<other, equal, todo, scans>>

----------------------------------------------------------------------------
(* Python integer operators on unbounded two's complement integers.        *)

RECURSIVE Pow2(_)
Pow2(n) == IF n = 0 THEN 1 ELSE 2 * Pow2(n - 1)

\* x >> n : floor division by 2^n, also for negative x
Shr(x, n) == IF x >= 0 THEN x \div Pow2(n) ELSE -(((-x) + Pow2(n) - 1) \div Pow2(n))

\* x << n
Shl(x, n) == x * Pow2(n)

\* the lowest bit of x (0 or 1), also for negative x
Bit0(x) == IF x >= 0 THEN x % 2 ELSE (-x) % 2

RECURSIVE BitOr(_, _)
BitOr(a, b) ==
    IF a = 0 THEN b
    ELSE IF b = 0 THEN a
    ELSE IF a = -1 \/ b = -1 THEN -1
    ELSE (IF Bit0(a) = 1 \/ Bit0(b) = 1 THEN 1 ELSE 0) + 2 * BitOr(Shr(a, 1), Shr(b, 1))

RECURSIVE BitAnd(_, _)
BitAnd(a, b) ==
    IF a = 0 \/ b = 0 THEN 0
    ELSE IF a = -1 THEN b
    ELSE IF b = -1 THEN a
    ELSE (IF Bit0(a) = 1 /\ Bit0(b) = 1 THEN 1 ELSE 0) + 2 * BitAnd(Shr(a, 1), Shr(b, 1))

IsByte(x) == x \in 0..255

\* bytes([...]) raises ValueError unless every item is in range(0, 256)
AllBytes(s) == \A k \in 1..Len(s) : IsByte(s[k])

Raise(exc) == [kind |-> exc]

----------------------------------------------------------------------------
(* CAN header                                                              *)

EMERGENCY == 0

HIGH == 1

NORMAL == 2

MajorPriority == {EMERGENCY, HIGH, NORMAL}

MIN_HIGH == 0

MIN_ABOVE_NORMAL == 1

MIN_NORMAL == 2

MIN_LOW == 3

MinorPriority == {MIN_HIGH, MIN_ABOVE_NORMAL, MIN_NORMAL, MIN_LOW}

MaxCanId == 127

\* Header._make_header with the minor priority one bit too low
MakeSidh_MinorShift3(maj, min, id) == BitOr(BitOr(Shl(maj, 6), Shl(min, 3)), Shr(id, 3))

\* Header._make_header: the packed register bytes of (major, minor, can_id)
MakeSidh(maj, min, id) == BitOr(BitOr(Shl(maj, 6), Shl(min, 4)), Shr(id, 3))

\* Header._make_header with the low identifier bits one bit too low
MakeSidl_Shift4(id) == Shl(BitAnd(id, 7), 4)

MakeSidl(id) == Shl(BitAnd(id, 7), 5)

\* Header.__init__
HeaderNew(maj, min, id) ==
    IF id > MaxCanId
    THEN Raise("ValueError")
    ELSE [kind |-> "Header", major |-> maj, minor |-> min, can_id |-> id,
          sidh |-> MakeSidh(maj, min, id), sidl |-> MakeSidl(id)]

\* Header.from_bytes reading the major priority from bits 6-5
HeaderFromBytes_MajorShift5(data) ==
    IF Len(data) < 2
    THEN Raise("IndexError")
    ELSE LET sidh == data[1]
             sidl == data[2]
             majv == BitAnd(Shr(sidh, 5), 3)
             minv == BitAnd(Shr(sidh, 4), 3)
             can_id == BitOr(Shl(BitAnd(sidh, 15), 3), BitAnd(Shr(sidl, 5), 7))
         IN  IF majv \notin MajorPriority
             THEN Raise("ValueError")
             ELSE [kind |-> "Header", major |-> majv, minor |-> minv, can_id |-> can_id,
                   sidh |-> sidh, sidl |-> sidl]

\* Header.from_bytes keeping the two bytes read as the packed registers
HeaderFromBytes_RawRegisters(data) ==
    IF Len(data) < 2
    THEN Raise("IndexError")
    ELSE LET sidh == data[1]
             sidl == data[2]
             majv == BitAnd(Shr(sidh, 6), 3)
             minv == BitAnd(Shr(sidh, 4), 3)
             can_id == BitOr(Shl(BitAnd(sidh, 15), 3), BitAnd(Shr(sidl, 5), 7))
         IN  IF majv \notin MajorPriority
             THEN Raise("ValueError")
             ELSE [HeaderNew(majv, minv, can_id) EXCEPT !.sidh = sidh, !.sidl = sidl]

\* Header.from_bytes
HeaderFromBytes(data) ==
    IF Len(data) < 2
    THEN Raise("IndexError")
    ELSE LET sidh == data[1]
             sidl == data[2]
             majv == BitAnd(Shr(sidh, 6), 3)
             minv == BitAnd(Shr(sidh, 4), 3)
             can_id == BitOr(Shl(BitAnd(sidh, 15), 3), BitAnd(Shr(sidl, 5), 7))
         IN  IF majv \notin MajorPriority
             THEN Raise("ValueError")
             ELSE HeaderNew(majv, minv, can_id)

\* Header.__eq__ comparing sidl only
HeaderEq_SidlOnly(a, b) == a.sidl = b.sidl

\* Header.__eq__
HeaderEq(a, b) == a.sidl = b.sidl /\ a.sidh = b.sidh

\* Header.reg_header
RegHeader(h) ==
    IF AllBytes(<<h.sidh, h.sidl>>)
    THEN [kind |-> "bytes", val |-> <<h.sidh, h.sidl>>]
    ELSE Raise("ValueError")

\* Header.can_header without the mask 0x1F on the high register
CanHeader_NoMask(h) ==
    LET high == Shr(h.sidh, 5)
        low == BitOr(Shl(h.sidh, 3), BitAnd(Shr(h.sidl, 5), 7))
    IN  IF AllBytes(<<high, low>>)
        THEN [kind |-> "bytes", val |-> <<high, low>>]
        ELSE Raise("ValueError")

\* Header.can_header: bytes([...]) raises ValueError outside range(256)
CanHeader(h) ==
    LET high == Shr(h.sidh, 5)
        low == BitOr(Shl(BitAnd(h.sidh, 31), 3), BitAnd(Shr(h.sidl, 5), 7))
    IN  IF AllBytes(<<high, low>>)
        THEN [kind |-> "bytes", val |-> <<high, low>>]
        ELSE Raise("ValueError")

----------------------------------------------------------------------------
(* Hexadecimal text, as sequences of ASCII codes                           *)

\* one lowercase hex digit, as bytes.hex() writes it
HexDigitLower(n) == IF n < 10 THEN 48 + n ELSE 87 + n

\* one uppercase hex digit, as the format code X writes it
HexDigitUpper(n) == IF n < 10 THEN 48 + n ELSE 55 + n

\* bytes.hex(): two lowercase digits per byte
RECURSIVE BytesHex(_)
BytesHex(b) ==
    IF b = <<>> THEN <<>>
    ELSE <<HexDigitLower(Head(b) \div 16), HexDigitLower(Head(b) % 16)>> \o BytesHex(Tail(b))

\* str.upper() on ASCII text
Upper(s) == [k \in 1..Len(s) |-> IF s[k] \in 97..122 THEN s[k] - 32 ELSE s[k]]

\* the class [0-9A-F]: no lowercase letter
IsHexDigit_NoLower(c) == c \in (48..57) \cup (65..70)

\* the class [0-9a-fA-F] of Frame.FORMAT, the digits bytes.fromhex reads
IsHexDigit(c) == c \in (48..57) \cup (65..70) \cup (97..102)

HexVal(c) == IF c \in 48..57 THEN c - 48 ELSE IF c \in 65..70 THEN c - 55 ELSE c - 87

RECURSIVE HexPairs(_)
HexPairs(s) ==
    IF s = <<>> THEN <<>>
    ELSE <<16 * HexVal(s[1]) + HexVal(s[2])>> \o HexPairs(SubSeq(s, 3, Len(s)))

\* bytes.fromhex(): ValueError unless the text is an even number of hex digits
FromHex(s) ==
    IF Len(s) % 2 = 0 /\ \A k \in 1..Len(s) : IsHexDigit(s[k])
    THEN [kind |-> "bytes", val |-> HexPairs(s)]
    ELSE Raise("ValueError")

\* Header.ascii_header
AsciiHeader(h) ==
    LET reg == RegHeader(h)
    IN  IF reg.kind = "bytes" THEN [kind |-> "bytes", val |-> BytesHex(reg.val)] ELSE reg

----------------------------------------------------------------------------
(* Operations on headers                                                   *)

NegIds == 2

OverIds == 2

\* the identifiers tried: the valid ones, some below 0 and some above 127
CanIds == (0 - NegIds)..(MaxCanId + OverIds)

Bytes == 0..255

\* the byte strings handed to Header.from_bytes: every string of at most 2 bytes
HeaderData == {<<>>} \cup {<<a>> : a \in Bytes} \cup {<<a, b>> : a \in Bytes, b \in Bytes}

NoHeader == [kind |-> "None"]

NoOp == [op |-> "none"]

\* the calls tried: Header(maj, min, id) and Header.from_bytes(data)
HeaderCalls ==
    {[op |-> "new", major |-> maj, minor |-> min, can_id |-> id] :
        maj \in MajorPriority, min \in MinorPriority, id \in CanIds}
    \cup {[op |-> "from_bytes", data |-> data] : data \in HeaderData}

DoHeaderNew ==
    /\ hop.op = "new"
    /\ header = NoHeader
    /\ header' = HeaderNew(hop.major, hop.minor, hop.can_id)
    /\ UNCHANGED <<hop, mvars, fvars, xvars>>

DoHeaderFromBytes ==
    /\ hop.op = "from_bytes"
    /\ header = NoHeader
    /\ header' = HeaderFromBytes(hop.data)
    /\ UNCHANGED <<hop, mvars, fvars, xvars>>

\* Header.from_bytes(h.reg_header) for the header h just constructed
DoHeaderReparse ==
    /\ hop.op = "new"
    /\ header.kind = "Header"
    /\ hop' = [op |-> "reparse", orig |-> header]
    /\ header' = LET reg == RegHeader(header)
                 IN  IF reg.kind = "bytes" THEN HeaderFromBytes(reg.val) ELSE reg
    /\ UNCHANGED <<mvars, fvars, xvars>>

\* h.can_header for the header h constructed or parsed
DoCanHeader ==
    /\ header.kind = "Header"
    /\ encoded = [kind |-> "None"]
    /\ encoded' = CanHeader(header)
    /\ UNCHANGED <<hop, header, mvars, buffer, frames, fin, xvars>>

InitHeader ==
    /\ hop \in HeaderCalls
    /\ header = NoHeader
    /\ mop = NoOp
    /\ message = [kind |-> "None"]
    /\ buffer = <<>>
    /\ frames = [kind |-> "None"]
    /\ fin = [kind |-> "None"]
    /\ encoded = [kind |-> "None"]
    /\ other = [kind |-> "None"]
    /\ equal = [kind |-> "None"]
    /\ todo = <<>>
    /\ scans = <<>>

NextHeader == DoHeaderNew \/ DoHeaderFromBytes \/ DoHeaderReparse \/ DoCanHeader

SpecHeader == InitHeader /\ [][NextHeader]_vars

----------------------------------------------------------------------------
(* Claims about the header                                                 *)

ValidCanId(id) == id \in 0..MaxCanId

IsValidHeader(h) ==
    /\ h.kind = "Header"
    /\ h.major \in MajorPriority
    /\ h.minor \in MinorPriority
    /\ ValidCanId(h.can_id)

\* C5: the header decoded from the register bytes of Header(major, minor, id),
\* for id in 0..127, has the same major priority, minor priority and source
\* id as the original and is equal to it.
C5_HeaderRoundTrip ==
    (hop.op = "reparse" /\ ValidCanId(hop.orig.can_id)) =>
        /\ header.kind = "Header"
        /\ header.major = hop.orig.major
        /\ header.minor = hop.orig.minor
        /\ header.can_id = hop.orig.can_id
        /\ HeaderEq(header, hop.orig)

C5_Witness ==
    /\ hop.op = "reparse"
    /\ hop.orig.major = HIGH /\ hop.orig.minor = MIN_LOW /\ hop.orig.can_id = 33
    /\ header.kind = "Header" /\ header.can_id = 33

\* C6: Header construction accepts exactly the source ids in 0..127; ids
\* above 127 and ids below 0 are rejected and no Header is produced.
C6_AcceptsExactlyValidIds ==
    (hop.op = "new" /\ header # NoHeader) =>
        (header.kind = "Header" <=> ValidCanId(hop.can_id))

C8_PackedBytes ==
    (hop.op = "new" /\ header.kind = "Header" /\ ValidCanId(hop.can_id)) =>
        LET high == hop.major * 64 + hop.minor * 16 + hop.can_id \div 8
            low == (hop.can_id % 8) * 32
            ascii == AsciiHeader(header)
        IN  /\ header.sidh = high /\ header.sidl = low
            /\ IsByte(header.sidh) /\ IsByte(header.sidl)
            /\ header.sidl % 32 = 0
            /\ RegHeader(header) = [kind |-> "bytes", val |-> <<high, low>>]
            /\ ascii.kind = "bytes" /\ Len(ascii.val) = 4
            /\ \A k \in 1..4 : IsHexDigit(ascii.val[k])
            /\ 16 * HexVal(ascii.val[1]) + HexVal(ascii.val[2]) = high
            /\ 16 * HexVal(ascii.val[3]) + HexVal(ascii.val[4]) = low
            /\ (hop.major = HIGH /\ hop.minor = MIN_LOW /\ hop.can_id = 33) =>
                   /\ header.sidh = 116 /\ header.sidl = 32
                   /\ ascii.val = <<55, 52, 50, 48>>

C8_Witness ==
    /\ hop.op = "new" /\ hop.major = HIGH /\ hop.minor = MIN_LOW /\ hop.can_id = 33
    /\ header.kind = "Header" /\ header.sidh = 116 /\ header.sidl = 32

\* C27: for every valid header, can_header is the two-byte big-endian form
\* of the 11-bit identifier ((sidh << 8) | sidl) >> 5, which is
\* (sidh >> 5, ((sidh & 0x1F) << 3) | ((sidl >> 5) & 0x07)); each byte is in
\* 0..255 and the value is below 2^11.
C27_CanHeader ==
    (encoded # [kind |-> "None"] /\ IsValidHeader(header)) =>
        LET ident == (header.sidh * 256 + header.sidl) \div 32
        IN  /\ ident \in 0..2047
            /\ encoded.kind = "bytes"
            /\ Len(encoded.val) = 2
            /\ IsByte(encoded.val[1]) /\ IsByte(encoded.val[2])
            /\ encoded.val = <<ident \div 256, ident % 256>>
            /\ encoded.val[1] = header.sidh \div 32
            /\ encoded.val[2] = ((header.sidh % 32) * 8) + ((header.sidl \div 32) % 8)
            /\ encoded.val[1] * 256 + encoded.val[2] = ident

\* Header(HIGH, LOW, 33): registers 0x74 0x20, identifier 0x3A1
C27_Witness ==
    /\ hop.op = "new" /\ hop.major = HIGH /\ hop.minor = MIN_LOW /\ hop.can_id = 33
    /\ IsValidHeader(header)
    /\ encoded = [kind |-> "bytes", val |-> <<3, 161>>]

----------------------------------------------------------------------------
(* Opcode catalog                                                          *)

\* class OpCode: value, name, default minor priority and kind of every member
OpCode ==
    { [value |-> 0, name |-> "ACK", minor |-> 2, kind |-> "GENERAL"],
      [value |-> 1, name |-> "NAK", minor |-> 2, kind |-> "GENERAL"],
      [value |-> 2, name |-> "HLT", minor |-> 0, kind |-> "GENERAL"],
      [value |-> 3, name |-> "BON", minor |-> 1, kind |-> "GENERAL"],
      [value |-> 4, name |-> "TOF", minor |-> 1, kind |-> "DCC"],
      [value |-> 5, name |-> "TON", minor |-> 1, kind |-> "DCC"],
      [value |-> 6, name |-> "ESTOP", minor |-> 1, kind |-> "DCC"],
      [value |-> 7, name |-> "ARST", minor |-> 0, kind |-> "GENERAL"],
      [value |-> 8, name |-> "RTOF", minor |-> 1, kind |-> "DCC"],
      [value |-> 9, name |-> "RTON", minor |-> 1, kind |-> "DCC"],
      [value |-> 10, name |-> "RESTP", minor |-> 0, kind |-> "DCC"],
      [value |-> 12, name |-> "RSTAT", minor |-> 2, kind |-> "CONFIG"],
      [value |-> 13, name |-> "QNN", minor |-> 3, kind |-> "CONFIG"],
      [value |-> 16, name |-> "RQNP", minor |-> 3, kind |-> "CONFIG"],
      [value |-> 17, name |-> "RQMN", minor |-> 2, kind |-> "CONFIG"],
      [value |-> 33, name |-> "KLOC", minor |-> 2, kind |-> "DCC"],
      [value |-> 34, name |-> "QLOC", minor |-> 2, kind |-> "DCC"],
      [value |-> 35, name |-> "DKEEP", minor |-> 2, kind |-> "DCC"],
      [value |-> 48, name |-> "DBG1", minor |-> 2, kind |-> "GENERAL"],
      [value |-> 63, name |-> "EXTC", minor |-> 3, kind |-> "GENERAL"],
      [value |-> 64, name |-> "RLOC", minor |-> 2, kind |-> "DCC"],
      [value |-> 65, name |-> "QCON", minor |-> 2, kind |-> "DCC"],
      [value |-> 66, name |-> "SNN", minor |-> 3, kind |-> "CONFIG"],
      [value |-> 67, name |-> "ALOC", minor |-> 2, kind |-> "DCC"],
      [value |-> 68, name |-> "STMOD", minor |-> 2, kind |-> "DCC"],
      [value |-> 69, name |-> "PCON", minor |-> 2, kind |-> "DCC"],
      [value |-> 70, name |-> "KCON", minor |-> 2, kind |-> "DCC"],
      [value |-> 71, name |-> "DSPD", minor |-> 2, kind |-> "DCC"],
      [value |-> 72, name |-> "DFLG", minor |-> 2, kind |-> "DCC"],
      [value |-> 73, name |-> "DFNON", minor |-> 2, kind |-> "DCC"],
      [value |-> 74, name |-> "DFNOF", minor |-> 2, kind |-> "DCC"],
      [value |-> 76, name |-> "SSTAT", minor |-> 2, kind |-> "DCC"],
      [value |-> 80, name |-> "RQNN", minor |-> 3, kind |-> "CONFIG"],
      [value |-> 81, name |-> "NNREL", minor |-> 3, kind |-> "CONFIG"],
      [value |-> 82, name |-> "NNACK", minor |-> 3, kind |-> "CONFIG"],
      [value |-> 83, name |-> "NNLRN", minor |-> 3, kind |-> "CONFIG"],
      [value |-> 84, name |-> "NNULN", minor |-> 3, kind |-> "CONFIG"],
      [value |-> 85, name |-> "NNCLR", minor |-> 3, kind |-> "CONFIG"],
      [value |-> 86, name |-> "NNEVN", minor |-> 3, kind |-> "CONFIG"],
      [value |-> 87, name |-> "NERD", minor |-> 3, kind |-> "CONFIG"],
      [value |-> 88, name |-> "RQEVN", minor |-> 3, kind |-> "CONFIG"],
      [value |-> 89, name |-> "WRACK", minor |-> 3, kind |-> "CONFIG"],
      [value |-> 90, name |-> "RQDAT", minor |-> 3, kind |-> "ACCESSORY"],
      [value |-> 91, name |-> "RQDDS", minor |-> 3, kind |-> "ACCESSORY"],
      [value |-> 92, name |-> "BOOTM", minor |-> 3, kind |-> "CONFIG"],
      [value |-> 93, name |-> "ENUM", minor |-> 3, kind |-> "CONFIG"],
      [value |-> 95, name |-> "EXTC1", minor |-> 3, kind |-> "GENERAL"],
      [value |-> 96, name |-> "DFUN", minor |-> 2, kind |-> "DCC"],
      [value |-> 97, name |-> "GLOC", minor |-> 2, kind |-> "DCC"],
      [value |-> 99, name |-> "ERR", minor |-> 2, kind |-> "DCC"],
      [value |-> 111, name |-> "CMDERR", minor |-> 3, kind |-> "CONFIG"],
      [value |-> 112, name |-> "EVNLF", minor |-> 3, kind |-> "CONFIG"],
      [value |-> 113, name |-> "NVRD", minor |-> 3, kind |-> "CONFIG"],
      [value |-> 114, name |-> "NENRD", minor |-> 3, kind |-> "CONFIG"],
      [value |-> 115, name |-> "RQNPN", minor |-> 3, kind |-> "CONFIG"],
      [value |-> 116, name |-> "NUMEV", minor |-> 3, kind |-> "CONFIG"],
      [value |-> 117, name |-> "CANID", minor |-> 3, kind |-> "CONFIG"],
      [value |-> 127, name |-> "EXTC2", minor |-> 3, kind |-> "GENERAL"],
      [value |-> 128, name |-> "RDCC3", minor |-> 2, kind |-> "DCC"],
      [value |-> 130, name |-> "WCVO", minor |-> 2, kind |-> "DCC"],
      [value |-> 131, name |-> "WCVB", minor |-> 2, kind |-> "DCC"],
      [value |-> 132, name |-> "QCVS", minor |-> 2, kind |-> "DCC"],
      [value |-> 133, name |-> "PCVS", minor |-> 2, kind |-> "DCC"],
      [value |-> 144, name |-> "ACON", minor |-> 3, kind |-> "ACCESSORY"],
      [value |-> 145, name |-> "ACOF", minor |-> 3, kind |-> "ACCESSORY"],
      [value |-> 146, name |-> "AREQ", minor |-> 3, kind |-> "ACCESSORY"],
      [value |-> 147, name |-> "ARON", minor |-> 3, kind |-> "ACCESSORY"],
      [value |-> 148, name |-> "AROF", minor |-> 3, kind |-> "ACCESSORY"],
      [value |-> 149, name |-> "EVULN", minor |-> 3, kind |-> "CONFIG"],
      [value |-> 150, name |-> "NVSET", minor |-> 3, kind |-> "CONFIG"],
      [value |-> 151, name |-> "NVANS", minor |-> 3, kind |-> "CONFIG"],
      [value |-> 152, name |-> "ASON", minor |-> 3, kind |-> "ACCESSORY"],
      [value |-> 153, name |-> "ASOF", minor |-> 3, kind |-> "ACCESSORY"],
      [value |-> 154, name |-> "ASRQ", minor |-> 3, kind |-> "ACCESSORY"],
      [value |-> 155, name |-> "PARAN", minor |-> 3, kind |-> "CONFIG"],
      [value |-> 156, name |-> "REVAL", minor |-> 3, kind |-> "CONFIG"],
      [value |-> 157, name |-> "ARSON", minor |-> 3, kind |-> "ACCESSORY"],
      [value |-> 158, name |-> "ARSOF", minor |-> 3, kind |-> "ACCESSORY"],
      [value |-> 159, name |-> "EXTC3", minor |-> 3, kind |-> "GENERAL"],
      [value |-> 160, name |-> "RDCC4", minor |-> 2, kind |-> "DCC"],
      [value |-> 162, name |-> "WCVS", minor |-> 2, kind |-> "DCC"],
      [value |-> 176, name |-> "ACON1", minor |-> 3, kind |-> "ACCESSORY"],
      [value |-> 177, name |-> "ACOF1", minor |-> 3, kind |-> "ACCESSORY"],
      [value |-> 178, name |-> "REQEV", minor |-> 3, kind |-> "CONFIG"],
      [value |-> 179, name |-> "ARON1", minor |-> 3, kind |-> "ACCESSORY"],
      [value |-> 180, name |-> "AROF1", minor |-> 3, kind |-> "ACCESSORY"],
      [value |-> 181, name |-> "NEVAL", minor |-> 3, kind |-> "CONFIG"],
      [value |-> 182, name |-> "PNN", minor |-> 3, kind |-> "CONFIG"],
      [value |-> 184, name |-> "ASON1", minor |-> 3, kind |-> "ACCESSORY"],
      [value |-> 185, name |-> "ASOF1", minor |-> 3, kind |-> "ACCESSORY"],
      [value |-> 189, name |-> "ARSON1", minor |-> 3, kind |-> "ACCESSORY"],
      [value |-> 190, name |-> "ARSOF1", minor |-> 3, kind |-> "ACCESSORY"],
      [value |-> 191, name |-> "EXTC4", minor |-> 3, kind |-> "GENERAL"],
      [value |-> 192, name |-> "RDCC5", minor |-> 2, kind |-> "DCC"],
      [value |-> 193, name |-> "WCVOA", minor |-> 2, kind |-> "DCC"],
      [value |-> 207, name |-> "FCLK", minor |-> 3, kind |-> "ACCESSORY"],
      [value |-> 208, name |-> "ACON2", minor |-> 3, kind |-> "ACCESSORY"],
      [value |-> 209, name |-> "ACOF2", minor |-> 3, kind |-> "ACCESSORY"],
      [value |-> 210, name |-> "EVLRN", minor |-> 3, kind |-> "CONFIG"],
      [value |-> 211, name |-> "EVANS", minor |-> 3, kind |-> "CONFIG"],
      [value |-> 212, name |-> "ARON2", minor |-> 3, kind |-> "ACCESSORY"],
      [value |-> 213, name |-> "AROF2", minor |-> 3, kind |-> "ACCESSORY"],
      [value |-> 216, name |-> "ASON2", minor |-> 3, kind |-> "ACCESSORY"],
      [value |-> 217, name |-> "ASOF2", minor |-> 3, kind |-> "ACCESSORY"],
      [value |-> 221, name |-> "ARSON2", minor |-> 3, kind |-> "ACCESSORY"],
      [value |-> 222, name |-> "ARSOF2", minor |-> 3, kind |-> "ACCESSORY"],
      [value |-> 223, name |-> "EXTC5", minor |-> 3, kind |-> "GENERAL"],
      [value |-> 224, name |-> "RDCC6", minor |-> 2, kind |-> "DCC"],
      [value |-> 225, name |-> "PLOC", minor |-> 2, kind |-> "DCC"],
      [value |-> 226, name |-> "NAME", minor |-> 3, kind |-> "CONFIG"],
      [value |-> 227, name |-> "STAT", minor |-> 2, kind |-> "DCC"],
      [value |-> 239, name |-> "PARAMS", minor |-> 3, kind |-> "CONFIG"],
      [value |-> 240, name |-> "ACON3", minor |-> 3, kind |-> "ACCESSORY"],
      [value |-> 241, name |-> "ACOF3", minor |-> 3, kind |-> "ACCESSORY"],
      [value |-> 242, name |-> "ENRSP", minor |-> 3, kind |-> "CONFIG"],
      [value |-> 243, name |-> "ARON3", minor |-> 3, kind |-> "ACCESSORY"],
      [value |-> 244, name |-> "AROF3", minor |-> 3, kind |-> "ACCESSORY"],
      [value |-> 245, name |-> "EVLRNI", minor |-> 3, kind |-> "CONFIG"],
      [value |-> 246, name |-> "ACDAT", minor |-> 3, kind |-> "ACCESSORY"],
      [value |-> 247, name |-> "ARDAT", minor |-> 3, kind |-> "ACCESSORY"],
      [value |-> 248, name |-> "ASON3", minor |-> 3, kind |-> "ACCESSORY"],
      [value |-> 249, name |-> "ASOF3", minor |-> 3, kind |-> "ACCESSORY"],
      [value |-> 250, name |-> "DDES", minor |-> 3, kind |-> "ACCESSORY"],
      [value |-> 251, name |-> "DDRS", minor |-> 3, kind |-> "ACCESSORY"],
      [value |-> 253, name |-> "ARSON3", minor |-> 3, kind |-> "ACCESSORY"],
      [value |-> 254, name |-> "ARSOF3", minor |-> 3, kind |-> "ACCESSORY"],
      [value |-> 255, name |-> "EXTC6", minor |-> 3, kind |-> "GENERAL"] }

OpCodeValues == {o.value : o \in OpCode}

\* OpCode.<NAME>.value
OpCodeNamed(n) == (CHOOSE o \in OpCode : o.name = n).value

\* OpCode.byte_count taken from the top four bits
ByteCount_Shift4(value) == Shr(value, 4)

\* OpCode.byte_count
ByteCount(value) == Shr(value, 5)

\* OpCode(value) accepting a value that names no member
OpCodeOf_Any(value) == [kind |-> "OpCode", value |-> value]

\* OpCode(value): the member with that value, ValueError when there is none
OpCodeOf(value) ==
    IF value \in OpCodeValues
    THEN [kind |-> "OpCode", value |-> value]
    ELSE Raise("ValueError")

----------------------------------------------------------------------------
(* CBUS message                                                            *)

\* an Optional argument: None or a value
None == [present |-> FALSE]

Some(v) == [present |-> TRUE, val |-> v]

\* bytes(n): n zero bytes
ZeroBytes(n) == [k \in 1..n |-> 0]

\* Message.__init__ without the length check
MessageNew_NoCheck(opcode, data) ==
    [kind |-> "Message", opcode |-> opcode,
     data |-> IF data.present THEN data.val ELSE ZeroBytes(ByteCount(opcode))]

\* Message.__init__ testing the truth of data instead of data is not None
MessageNew_Truthy(opcode, data) ==
    LET byte_cnt == ByteCount(opcode)
    IN  IF data.present /\ Len(data.val) # 0 /\ Len(data.val) # byte_cnt
        THEN Raise("ValueError")
        ELSE [kind |-> "Message", opcode |-> opcode,
              data |-> IF data.present THEN data.val ELSE ZeroBytes(byte_cnt)]

\* Message.__init__
MessageNew(opcode, data) ==
    LET byte_cnt == ByteCount(opcode)
    IN  IF data.present /\ Len(data.val) # byte_cnt
        THEN Raise("ValueError")
        ELSE [kind |-> "Message", opcode |-> opcode,
              data |-> IF data.present THEN data.val ELSE ZeroBytes(byte_cnt)]

\* Message.from_bytes handing all of data, opcode byte included, on as payload
MessageFromBytes_KeepOpcode(data) ==
    IF Len(data) = 0
    THEN Raise("ValueError")
    ELSE LET opcode == OpCodeOf(data[1])
         IN  IF opcode.kind # "OpCode"
             THEN opcode
             ELSE MessageNew(opcode.value, Some(data))

\* Message.from_bytes
MessageFromBytes(data) ==
    IF Len(data) = 0
    THEN Raise("ValueError")
    ELSE LET opcode == OpCodeOf(data[1])
         IN  IF opcode.kind # "OpCode"
             THEN opcode
             ELSE MessageNew(opcode.value, Some(Tail(data)))

\* Message.__eq__
MessageEq(a, b) == a.opcode = b.opcode /\ a.data = b.data

\* Message.message: the opcode byte followed by the payload
MessageBytes(m) == <<m.opcode>> \o m.data

\* OpCode.name: the code points of the name of the member with that value
OpCodeNameText(value) ==
    CASE value = 0 -> <<65, 67, 75>> []
         value = 1 -> <<78, 65, 75>> []
         value = 2 -> <<72, 76, 84>> []
         value = 3 -> <<66, 79, 78>> []
         value = 4 -> <<84, 79, 70>> []
         value = 5 -> <<84, 79, 78>> []
         value = 6 -> <<69, 83, 84, 79, 80>> []
         value = 7 -> <<65, 82, 83, 84>> []
         value = 8 -> <<82, 84, 79, 70>> []
         value = 9 -> <<82, 84, 79, 78>> []
         value = 10 -> <<82, 69, 83, 84, 80>> []
         value = 12 -> <<82, 83, 84, 65, 84>> []
         value = 13 -> <<81, 78, 78>> []
         value = 16 -> <<82, 81, 78, 80>> []
         value = 17 -> <<82, 81, 77, 78>> []
         value = 33 -> <<75, 76, 79, 67>> []
         value = 34 -> <<81, 76, 79, 67>> []
         value = 35 -> <<68, 75, 69, 69, 80>> []
         value = 48 -> <<68, 66, 71, 49>> []
         value = 63 -> <<69, 88, 84, 67>> []
         value = 64 -> <<82, 76, 79, 67>> []
         value = 65 -> <<81, 67, 79, 78>> []
         value = 66 -> <<83, 78, 78>> []
         value = 67 -> <<65, 76, 79, 67>> []
         value = 68 -> <<83, 84, 77, 79, 68>> []
         value = 69 -> <<80, 67, 79, 78>> []
         value = 70 -> <<75, 67, 79, 78>> []
         value = 71 -> <<68, 83, 80, 68>> []
         value = 72 -> <<68, 70, 76, 71>> []
         value = 73 -> <<68, 70, 78, 79, 78>> []
         value = 74 -> <<68, 70, 78, 79, 70>> []
         value = 76 -> <<83, 83, 84, 65, 84>> []
         value = 80 -> <<82, 81, 78, 78>> []
         value = 81 -> <<78, 78, 82, 69, 76>> []
         value = 82 -> <<78, 78, 65, 67, 75>> []
         value = 83 -> <<78, 78, 76, 82, 78>> []
         value = 84 -> <<78, 78, 85, 76, 78>> []
         value = 85 -> <<78, 78, 67, 76, 82>> []
         value = 86 -> <<78, 78, 69, 86, 78>> []
         value = 87 -> <<78, 69, 82, 68>> []
         value = 88 -> <<82, 81, 69, 86, 78>> []
         value = 89 -> <<87, 82, 65, 67, 75>> []
         value = 90 -> <<82, 81, 68, 65, 84>> []
         value = 91 -> <<82, 81, 68, 68, 83>> []
         value = 92 -> <<66, 79, 79, 84, 77>> []
         value = 93 -> <<69, 78, 85, 77>> []
         value = 95 -> <<69, 88, 84, 67, 49>> []
         value = 96 -> <<68, 70, 85, 78>> []
         value = 97 -> <<71, 76, 79, 67>> []
         value = 99 -> <<69, 82, 82>> []
         value = 111 -> <<67, 77, 68, 69, 82, 82>> []
         value = 112 -> <<69, 86, 78, 76, 70>> []
         value = 113 -> <<78, 86, 82, 68>> []
         value = 114 -> <<78, 69, 78, 82, 68>> []
         value = 115 -> <<82, 81, 78, 80, 78>> []
         value = 116 -> <<78, 85, 77, 69, 86>> []
         value = 117 -> <<67, 65, 78, 73, 68>> []
         value = 127 -> <<69, 88, 84, 67, 50>> []
         value = 128 -> <<82, 68, 67, 67, 51>> []
         value = 130 -> <<87, 67, 86, 79>> []
         value = 131 -> <<87, 67, 86, 66>> []
         value = 132 -> <<81, 67, 86, 83>> []
         value = 133 -> <<80, 67, 86, 83>> []
         value = 144 -> <<65, 67, 79, 78>> []
         value = 145 -> <<65, 67, 79, 70>> []
         value = 146 -> <<65, 82, 69, 81>> []
         value = 147 -> <<65, 82, 79, 78>> []
         value = 148 -> <<65, 82, 79, 70>> []
         value = 149 -> <<69, 86, 85, 76, 78>> []
         value = 150 -> <<78, 86, 83, 69, 84>> []
         value = 151 -> <<78, 86, 65, 78, 83>> []
         value = 152 -> <<65, 83, 79, 78>> []
         value = 153 -> <<65, 83, 79, 70>> []
         value = 154 -> <<65, 83, 82, 81>> []
         value = 155 -> <<80, 65, 82, 65, 78>> []
         value = 156 -> <<82, 69, 86, 65, 76>> []
         value = 157 -> <<65, 82, 83, 79, 78>> []
         value = 158 -> <<65, 82, 83, 79, 70>> []
         value = 159 -> <<69, 88, 84, 67, 51>> []
         value = 160 -> <<82, 68, 67, 67, 52>> []
         value = 162 -> <<87, 67, 86, 83>> []
         value = 176 -> <<65, 67, 79, 78, 49>> []
         value = 177 -> <<65, 67, 79, 70, 49>> []
         value = 178 -> <<82, 69, 81, 69, 86>> []
         value = 179 -> <<65, 82, 79, 78, 49>> []
         value = 180 -> <<65, 82, 79, 70, 49>> []
         value = 181 -> <<78, 69, 86, 65, 76>> []
         value = 182 -> <<80, 78, 78>> []
         value = 184 -> <<65, 83, 79, 78, 49>> []
         value = 185 -> <<65, 83, 79, 70, 49>> []
         value = 189 -> <<65, 82, 83, 79, 78, 49>> []
         value = 190 -> <<65, 82, 83, 79, 70, 49>> []
         value = 191 -> <<69, 88, 84, 67, 52>> []
         value = 192 -> <<82, 68, 67, 67, 53>> []
         value = 193 -> <<87, 67, 86, 79, 65>> []
         value = 207 -> <<70, 67, 76, 75>> []
         value = 208 -> <<65, 67, 79, 78, 50>> []
         value = 209 -> <<65, 67, 79, 70, 50>> []
         value = 210 -> <<69, 86, 76, 82, 78>> []
         value = 211 -> <<69, 86, 65, 78, 83>> []
         value = 212 -> <<65, 82, 79, 78, 50>> []
         value = 213 -> <<65, 82, 79, 70, 50>> []
         value = 216 -> <<65, 83, 79, 78, 50>> []
         value = 217 -> <<65, 83, 79, 70, 50>> []
         value = 221 -> <<65, 82, 83, 79, 78, 50>> []
         value = 222 -> <<65, 82, 83, 79, 70, 50>> []
         value = 223 -> <<69, 88, 84, 67, 53>> []
         value = 224 -> <<82, 68, 67, 67, 54>> []
         value = 225 -> <<80, 76, 79, 67>> []
         value = 226 -> <<78, 65, 77, 69>> []
         value = 227 -> <<83, 84, 65, 84>> []
         value = 239 -> <<80, 65, 82, 65, 77, 83>> []
         value = 240 -> <<65, 67, 79, 78, 51>> []
         value = 241 -> <<65, 67, 79, 70, 51>> []
         value = 242 -> <<69, 78, 82, 83, 80>> []
         value = 243 -> <<65, 82, 79, 78, 51>> []
         value = 244 -> <<65, 82, 79, 70, 51>> []
         value = 245 -> <<69, 86, 76, 82, 78, 73>> []
         value = 246 -> <<65, 67, 68, 65, 84>> []
         value = 247 -> <<65, 82, 68, 65, 84>> []
         value = 248 -> <<65, 83, 79, 78, 51>> []
         value = 249 -> <<65, 83, 79, 70, 51>> []
         value = 250 -> <<68, 68, 69, 83>> []
         value = 251 -> <<68, 68, 82, 83>> []
         value = 253 -> <<65, 82, 83, 79, 78, 51>> []
         value = 254 -> <<65, 82, 83, 79, 70, 51>> []
         value = 255 -> <<69, 88, 84, 67, 54>>

\* format code X instead of 02X: no leading zero
Fmt02X_NoPad(v) ==
    IF v < 16 THEN <<HexDigitUpper(v)>> ELSE <<HexDigitUpper(v \div 16), HexDigitUpper(v % 16)>>

\* format code 02X of a byte
Fmt02X(v) == <<HexDigitUpper(v \div 16), HexDigitUpper(v % 16)>>

RECURSIVE FmtAll(_)
FmtAll(b) == IF b = <<>> THEN <<>> ELSE Fmt02X(Head(b)) \o FmtAll(Tail(b))

\* Message.__str__: "<NAME>", then "<" + format code X (uppercase hex, no
\* leading zero) + ">" for each payload byte
MessageStr(m) ==
    LET FmtX(v) == IF v < 16 THEN <<HexDigitUpper(v)>>
                   ELSE <<HexDigitUpper(v \div 16), HexDigitUpper(v % 16)>>
        RECURSIVE Groups(_)
        Groups(b) == IF b = <<>> THEN <<>>
                     ELSE <<60>> \o FmtX(Head(b)) \o <<62>> \o Groups(Tail(b))
    IN  <<60>> \o OpCodeNameText(m.opcode) \o <<62>> \o Groups(m.data)

\* Message.ascii writing the opcode with the format code X in place of 02X
MessageAscii_NoPad(m) == Fmt02X_NoPad(m.opcode) \o FmtAll(m.data)

\* Message.ascii
MessageAscii(m) == Fmt02X(m.opcode) \o FmtAll(m.data)

\* struct.pack of one item of w bytes with the low byte first
PackItem_LittleEndian(w, v) == IF w = 1 THEN <<v>> ELSE <<v % 256, v \div 256>>

\* struct.pack of one unsigned big-endian item of w bytes (format B or H)
PackItem(w, v) == IF w = 1 THEN <<v>> ELSE <<v \div 256, v % 256>>

RECURSIVE PackItems(_, _)
PackItems(widths, values) ==
    IF widths = <<>> THEN <<>>
    ELSE PackItem(Head(widths), Head(values)) \o PackItems(Tail(widths), Tail(values))

\* struct.pack("!...", *values): struct.error when the number of values is not
\* the number of items or a value is outside the range of its item
StructPack(widths, values) ==
    IF /\ Len(values) = Len(widths)
       /\ \A k \in 1..Len(widths) : values[k] \in 0..(Pow2(8 * widths[k]) - 1)
    THEN [kind |-> "bytes", val |-> PackItems(widths, values)]
    ELSE Raise("struct.error")

\* cls(opcode, struct.pack(...))
MessagePacked(opcode, packed) ==
    IF packed.kind = "bytes" THEN MessageNew(opcode, Some(packed.val)) ELSE packed

\* Message.make_acknowledge
make_acknowledge == MessageNew(OpCodeNamed("ACK"), None)

\* Message.make_accesory_long_event_on
make_accesory_long_event_on(node, event) ==
    MessagePacked(OpCodeNamed("ACON"), StructPack(<<2, 2>>, <<node, event>>))

\* Message.make_accesory_long_event_off
make_accesory_long_event_off(node, event) ==
    MessagePacked(OpCodeNamed("ACOF"), StructPack(<<2, 2>>, <<node, event>>))

\* Message.make_command_station_error
make_command_station_error(loco_address, error_code) ==
    MessagePacked(OpCodeNamed("ERR"), StructPack(<<2, 1>>, <<loco_address, error_code>>))

\* Message.make_config_error
make_config_error(node_number, error_code) ==
    MessagePacked(OpCodeNamed("CMDERR"), StructPack(<<2, 1>>, <<node_number, error_code>>))

\* Message.make_session_keep_alive
make_session_keep_alive(session) ==
    MessagePacked(OpCodeNamed("DKEEP"), StructPack(<<1>>, <<session>>))

\* Message.make_request_engine_session
make_request_engine_session(loco_address) ==
    MessagePacked(OpCodeNamed("RLOC"), StructPack(<<2>>, <<loco_address>>))

\* Message.make_release_engine
make_release_engine(session) ==
    MessagePacked(OpCodeNamed("KLOC"), StructPack(<<1>>, <<session>>))

\* Message.make_command_station_report
make_command_station_report(node_number, cs_number, flags, rev_major, rev_minor, build) ==
    MessagePacked(OpCodeNamed("STAT"), StructPack(<<2, 1, 1, 1, 1, 1>>, <<node_number, cs_number, flags, rev_major, rev_minor, build>>))

\* Message.make_query_node_response
make_query_node_response(node_number, manufacturer_id, module_id, flags) ==
    MessagePacked(OpCodeNamed("PNN"), StructPack(<<2, 1, 1, 1>>, <<node_number, manufacturer_id, module_id, flags>>))

\* Message.make_parameter
make_parameter(node_number, param_number, param_value) ==
    MessagePacked(OpCodeNamed("PARAN"), StructPack(<<2, 1, 1>>, <<node_number, param_number, param_value>>))

\* Message.make_read_node_var
make_read_node_var(node_number, nv_number, nv_value) ==
    MessagePacked(OpCodeNamed("NVANS"), StructPack(<<2, 1, 1>>, <<node_number, nv_number, nv_value>>))

\* Message.make_node_number_ack
make_node_number_ack(node_number) ==
    MessagePacked(OpCodeNamed("NNACK"), StructPack(<<2>>, <<node_number>>))

\* Message.make_write_ack
make_write_ack(node_number) ==
    MessagePacked(OpCodeNamed("WRACK"), StructPack(<<2>>, <<node_number>>))

\* Message.make_stored_event_num
make_stored_event_num(node_number, ev_num) ==
    MessagePacked(OpCodeNamed("NUMEV"), StructPack(<<2, 1>>, <<node_number, ev_num>>))

\* Message.make_event_read_resp
make_event_read_resp(node_number, ev_nn, ev_num, ev_idx) ==
    MessagePacked(OpCodeNamed("ENRSP"), StructPack(<<2, 2, 2, 1>>, <<node_number, ev_nn, ev_num, ev_idx>>))

\* Message.make_event_value_read_resp
make_event_value_read_resp(node_number, ev_idx, ev_var_idx, ev_var_val) ==
    MessagePacked(OpCodeNamed("NEVAL"), StructPack(<<2, 1, 1, 1>>, <<node_number, ev_idx, ev_var_idx, ev_var_val>>))

\* Message.make_emergency_stop
make_emergency_stop == MessageNew(OpCodeNamed("ESTOP"), None)

\* Message.make_engine_report without the mask 0x7F on speed
make_engine_report_NoMask(session, loco_address, speed, direction, fns) ==
    LET fnsv == IF fns.present THEN fns.val ELSE <<0, 0, 0>>
        speed_dir == BitOr(speed, Shl(direction, 7))
    IN  MessagePacked(OpCodeNamed("PLOC"),
                      StructPack(<<1, 2, 1, 1, 1, 1>>, <<session, loco_address, speed_dir>> \o fnsv))

\* Message.make_engine_report
make_engine_report(session, loco_address, speed, direction, fns) ==
    LET fnsv == IF fns.present THEN fns.val ELSE <<0, 0, 0>>
        speed_dir == BitOr(BitAnd(speed, 127), Shl(direction, 7))
    IN  MessagePacked(OpCodeNamed("PLOC"),
                      StructPack(<<1, 2, 1, 1, 1, 1>>, <<session, loco_address, speed_dir>> \o fnsv))

\* Message.make_node_params
make_node_params(params) ==
    MessagePacked(OpCodeNamed("PARAMS"),
                  StructPack(<<1, 1, 1, 1, 1, 1, 1>>,
                             SubSeq(params, 1, IF Len(params) < 7 THEN Len(params) ELSE 7)))

\* struct.pack("!7s", b) putting the zero bytes before b
Pack7s_LeftPad(b) == [k \in 1..7 |-> IF k <= 7 - Len(b) THEN 0 ELSE b[k - (7 - Len(b))]]

\* struct.pack("!7s", b) of at most 7 bytes: b, then zero bytes up to 7
Pack7s(b) == [k \in 1..7 |-> IF k <= Len(b) THEN b[k] ELSE 0]

\* Message.make_module_name
make_module_name(name) ==
    LET cut == SubSeq(name, 1, IF Len(name) < 7 THEN Len(name) ELSE 7)
    IN  IF \E k \in 1..Len(cut) : cut[k] > 127
        THEN Raise("UnicodeEncodeError")
        ELSE MessageNew(OpCodeNamed("NAME"), Some(Pack7s(cut)))

----------------------------------------------------------------------------
(* Operations on messages                                                  *)

MaxDataLen == 8

\* the payloads tried: for every length up to MaxDataLen the zero payload and
\* two payloads whose bytes all differ
Payloads ==
    {ZeroBytes(n) : n \in 0..MaxDataLen}
    \cup {[k \in 1..n |-> (b + 37 * k) % 256] : n \in 1..MaxDataLen, b \in {0, 251}}
    \cup {<<1, 16, 32, 48>>}

\* the values tried for a 16-bit and for an 8-bit argument: in and out of range
Words16 == {0, 10, 64321, 65535, 65536, -1}

Words8 == {0, 16, 255, 256}

Lists ==
    {<<0, 0, 0>>, <<1, 2, 3>>, <<1, 2>>, <<1, 2, 3, 4>>, <<1, 2, 256>>,
     <<1, 2, 3, 4, 5, 6>>, <<1, 2, 3, 4, 5, 6, 7>>, <<1, 2, 3, 4, 5, 6, 7, 8>>}

\* "CANCMD" and other names, as code points
Names ==
    {<<>>, <<67, 65, 78>>, <<67, 65, 78, 67, 77, 68>>, <<67, 65, 78, 67, 77, 68, 49>>,
     <<67, 65, 78, 67, 77, 68, 49, 50>>, <<67, 233, 78>>, <<67, 65, 78, 67, 77, 68, 49, 233>>}

NoMessage == [kind |-> "None"]

Call(op, args, list) == [op |-> op, args |-> args, list |-> list]

\* the calls tried: Message(opcode, data), Message(opcode), Message.from_bytes(data)
\* and every Message.make_* with arguments in and out of range
MessageCalls ==
    {[op |-> "new", opcode |-> o, data |-> d] :
        o \in OpCodeValues, d \in {None} \cup {Some(p) : p \in Payloads}}
    \cup {[op |-> "from_bytes", bytes |-> b] :
        b \in {<<>>} \cup {<<o>> \o p : o \in Bytes, p \in Payloads}}
    \cup {Call("make_acknowledge", <<>>, None)}
    \cup {Call("make_accesory_long_event_on", <<a1, a2>>, None) : a1 \in Words16, a2 \in Words16}
    \cup {Call("make_accesory_long_event_off", <<a1, a2>>, None) : a1 \in Words16, a2 \in Words16}
    \cup {Call("make_command_station_error", <<a1, a2>>, None) : a1 \in Words16, a2 \in Words8}
    \cup {Call("make_config_error", <<a1, a2>>, None) : a1 \in Words16, a2 \in Words8}
    \cup {Call("make_session_keep_alive", <<a1>>, None) : a1 \in Words8}
    \cup {Call("make_request_engine_session", <<a1>>, None) : a1 \in Words16}
    \cup {Call("make_release_engine", <<a1>>, None) : a1 \in Words8}
    \cup {Call("make_query_node_response", <<a1, a2, a3, a4>>, None) : a1 \in Words16, a2 \in Words8, a3 \in Words8, a4 \in Words8}
    \cup {Call("make_parameter", <<a1, a2, a3>>, None) : a1 \in Words16, a2 \in Words8, a3 \in Words8}
    \cup {Call("make_read_node_var", <<a1, a2, a3>>, None) : a1 \in Words16, a2 \in Words8, a3 \in Words8}
    \cup {Call("make_node_number_ack", <<a1>>, None) : a1 \in Words16}
    \cup {Call("make_write_ack", <<a1>>, None) : a1 \in Words16}
    \cup {Call("make_stored_event_num", <<a1, a2>>, None) : a1 \in Words16, a2 \in Words8}
    \cup {Call("make_event_read_resp", <<a1, a2, a3, a4>>, None) : a1 \in Words16, a2 \in Words16, a3 \in Words16, a4 \in Words8}
    \cup {Call("make_event_value_read_resp", <<a1, a2, a3, a4>>, None) : a1 \in Words16, a2 \in Words8, a3 \in Words8, a4 \in Words8}
    \cup {Call("make_emergency_stop", <<>>, None)}
    \cup {Call("make_command_station_report", <<a1, a2, a3, a4, a5>>, None) :
        a1 \in Words16, a2 \in Words8, a3 \in Words8, a4 \in Words8, a5 \in Words8}
    \cup {Call("make_command_station_report", <<a1, a2, a3, a4, a5, a6>>, None) :
        a1 \in Words16, a2 \in Words8, a3 \in {0, 255}, a4 \in {0, 255}, a5 \in {0, 255}, a6 \in Words8}
    \cup {Call("make_engine_report", <<a1, a2, a3, a4>>, l) :
        a1 \in Words8, a2 \in Words16, a3 \in {-1, 0, 5, 127, 128, 255, 300}, a4 \in {0, 1, 2},
        l \in {None} \cup {Some(x) : x \in Lists}}
    \cup {Call("make_node_params", <<>>, Some(l)) : l \in Lists}
    \cup {Call("make_module_name", <<>>, Some(n)) : n \in Names}

DoMessageNew ==
    /\ mop.op = "new"
    /\ message = NoMessage
    /\ message' = MessageNew(mop.opcode, mop.data)
    /\ UNCHANGED <<mop, hvars, fvars, xvars>>

DoMessageFromBytes ==
    /\ mop.op = "from_bytes"
    /\ message = NoMessage
    /\ message' = MessageFromBytes(mop.bytes)
    /\ UNCHANGED <<mop, hvars, fvars, xvars>>

Do_make_acknowledge ==
    /\ mop.op = "make_acknowledge"
    /\ message = NoMessage
    /\ message' = make_acknowledge
    /\ UNCHANGED <<mop, hvars, fvars, xvars>>

Do_make_accesory_long_event_on ==
    /\ mop.op = "make_accesory_long_event_on"
    /\ message = NoMessage
    /\ message' = make_accesory_long_event_on(mop.args[1], mop.args[2])
    /\ UNCHANGED <<mop, hvars, fvars, xvars>>

Do_make_accesory_long_event_off ==
    /\ mop.op = "make_accesory_long_event_off"
    /\ message = NoMessage
    /\ message' = make_accesory_long_event_off(mop.args[1], mop.args[2])
    /\ UNCHANGED <<mop, hvars, fvars, xvars>>

Do_make_command_station_error ==
    /\ mop.op = "make_command_station_error"
    /\ message = NoMessage
    /\ message' = make_command_station_error(mop.args[1], mop.args[2])
    /\ UNCHANGED <<mop, hvars, fvars, xvars>>

Do_make_config_error ==
    /\ mop.op = "make_config_error"
    /\ message = NoMessage
    /\ message' = make_config_error(mop.args[1], mop.args[2])
    /\ UNCHANGED <<mop, hvars, fvars, xvars>>

Do_make_session_keep_alive ==
    /\ mop.op = "make_session_keep_alive"
    /\ message = NoMessage
    /\ message' = make_session_keep_alive(mop.args[1])
    /\ UNCHANGED <<mop, hvars, fvars, xvars>>

Do_make_request_engine_session ==
    /\ mop.op = "make_request_engine_session"
    /\ message = NoMessage
    /\ message' = make_request_engine_session(mop.args[1])
    /\ UNCHANGED <<mop, hvars, fvars, xvars>>

Do_make_release_engine ==
    /\ mop.op = "make_release_engine"
    /\ message = NoMessage
    /\ message' = make_release_engine(mop.args[1])
    /\ UNCHANGED <<mop, hvars, fvars, xvars>>

Do_make_query_node_response ==
    /\ mop.op = "make_query_node_response"
    /\ message = NoMessage
    /\ message' = make_query_node_response(mop.args[1], mop.args[2], mop.args[3], mop.args[4])
    /\ UNCHANGED <<mop, hvars, fvars, xvars>>

Do_make_parameter ==
    /\ mop.op = "make_parameter"
    /\ message = NoMessage
    /\ message' = make_parameter(mop.args[1], mop.args[2], mop.args[3])
    /\ UNCHANGED <<mop, hvars, fvars, xvars>>

Do_make_read_node_var ==
    /\ mop.op = "make_read_node_var"
    /\ message = NoMessage
    /\ message' = make_read_node_var(mop.args[1], mop.args[2], mop.args[3])
    /\ UNCHANGED <<mop, hvars, fvars, xvars>>

Do_make_node_number_ack ==
    /\ mop.op = "make_node_number_ack"
    /\ message = NoMessage
    /\ message' = make_node_number_ack(mop.args[1])
    /\ UNCHANGED <<mop, hvars, fvars, xvars>>

Do_make_write_ack ==
    /\ mop.op = "make_write_ack"
    /\ message = NoMessage
    /\ message' = make_write_ack(mop.args[1])
    /\ UNCHANGED <<mop, hvars, fvars, xvars>>

Do_make_stored_event_num ==
    /\ mop.op = "make_stored_event_num"
    /\ message = NoMessage
    /\ message' = make_stored_event_num(mop.args[1], mop.args[2])
    /\ UNCHANGED <<mop, hvars, fvars, xvars>>

Do_make_event_read_resp ==
    /\ mop.op = "make_event_read_resp"
    /\ message = NoMessage
    /\ message' = make_event_read_resp(mop.args[1], mop.args[2], mop.args[3], mop.args[4])
    /\ UNCHANGED <<mop, hvars, fvars, xvars>>

Do_make_event_value_read_resp ==
    /\ mop.op = "make_event_value_read_resp"
    /\ message = NoMessage
    /\ message' = make_event_value_read_resp(mop.args[1], mop.args[2], mop.args[3], mop.args[4])
    /\ UNCHANGED <<mop, hvars, fvars, xvars>>

Do_make_emergency_stop ==
    /\ mop.op = "make_emergency_stop"
    /\ message = NoMessage
    /\ message' = make_emergency_stop
    /\ UNCHANGED <<mop, hvars, fvars, xvars>>

Do_make_command_station_report ==
    /\ mop.op = "make_command_station_report"
    /\ message = NoMessage
    /\ message' = make_command_station_report(mop.args[1], mop.args[2], mop.args[3], mop.args[4], mop.args[5],
                                           IF Len(mop.args) = 6 THEN mop.args[6] ELSE 0)
    /\ UNCHANGED <<mop, hvars, fvars, xvars>>

Do_make_engine_report ==
    /\ mop.op = "make_engine_report"
    /\ message = NoMessage
    /\ message' = make_engine_report(mop.args[1], mop.args[2], mop.args[3], mop.args[4], mop.list)
    /\ UNCHANGED <<mop, hvars, fvars, xvars>>

Do_make_node_params ==
    /\ mop.op = "make_node_params"
    /\ message = NoMessage
    /\ message' = make_node_params(mop.list.val)
    /\ UNCHANGED <<mop, hvars, fvars, xvars>>

Do_make_module_name ==
    /\ mop.op = "make_module_name"
    /\ message = NoMessage
    /\ message' = make_module_name(mop.list.val)
    /\ UNCHANGED <<mop, hvars, fvars, xvars>>

\* Message.from_bytes(message.message) of a message built by any earlier call
DoMessageReparse ==
    /\ mop.op # "reparse"
    /\ message.kind = "Message"
    /\ mop' = [op |-> "reparse", orig |-> message]
    /\ message' = MessageFromBytes(MessageBytes(message))
    /\ UNCHANGED <<hvars, fvars, xvars>>

\* str(message)
DoMessageStr ==
    /\ mop.op # "reparse"
    /\ message.kind = "Message"
    /\ encoded = [kind |-> "None"]
    /\ encoded' = [kind |-> "str", of |-> "__str__", val |-> MessageStr(message)]
    /\ UNCHANGED <<buffer, frames, fin, hvars, mvars, xvars>>

\* message.ascii
DoMessageAscii ==
    /\ mop.op # "reparse"
    /\ message.kind = "Message"
    /\ encoded = [kind |-> "None"]
    /\ encoded' = [kind |-> "str", of |-> "ascii", val |-> MessageAscii(message)]
    /\ UNCHANGED <<buffer, frames, fin, hvars, mvars, xvars>>

InitMessage ==
    /\ mop \in MessageCalls
    /\ message = NoMessage
    /\ hop = NoOp
    /\ header = NoHeader
    /\ buffer = <<>>
    /\ frames = [kind |-> "None"]
    /\ fin = [kind |-> "None"]
    /\ encoded = [kind |-> "None"]
    /\ other = [kind |-> "None"]
    /\ equal = [kind |-> "None"]
    /\ todo = <<>>
    /\ scans = <<>>

NextMessage ==
    \/ DoMessageNew
    \/ DoMessageFromBytes
    \/ Do_make_acknowledge
    \/ Do_make_accesory_long_event_on
    \/ Do_make_accesory_long_event_off
    \/ Do_make_command_station_error
    \/ Do_make_config_error
    \/ Do_make_session_keep_alive
    \/ Do_make_request_engine_session
    \/ Do_make_release_engine
    \/ Do_make_query_node_response
    \/ Do_make_parameter
    \/ Do_make_read_node_var
    \/ Do_make_node_number_ack
    \/ Do_make_write_ack
    \/ Do_make_stored_event_num
    \/ Do_make_event_read_resp
    \/ Do_make_event_value_read_resp
    \/ Do_make_emergency_stop
    \/ Do_make_command_station_report
    \/ Do_make_engine_report
    \/ Do_make_node_params
    \/ Do_make_module_name
    \/ DoMessageReparse
    \/ DoMessageStr
    \/ DoMessageAscii

SpecMessage == InitMessage /\ [][NextMessage]_vars

----------------------------------------------------------------------------
(* Claims about the message                                                *)

\* C9: every Message obtained through any construction path (Message(opcode,
\* data), Message(opcode), a Message.make_* constructor, Message.from_bytes)
\* has a payload of exactly opcode.byte_count bytes.
C9_PayloadLength ==
    message.kind = "Message" =>
        /\ message.opcode \in OpCodeValues
        /\ Len(message.data) = message.opcode \div 32

C9_Witness ==
    /\ mop.op = "make_engine_report"
    /\ message.kind = "Message"
    /\ Len(message.data) = 7

\* C10: Message(opcode, payload) fails whenever the payload is shorter or
\* longer than opcode.byte_count, an empty payload for a non-zero byte_count
\* included, and Message(opcode) without payload has byte_count zero bytes.
C10_ConstructorLengthCheck ==
    (mop.op = "new" /\ message # NoMessage) =>
        LET byte_count == mop.opcode \div 32
        IN  IF mop.data.present
            THEN IF Len(mop.data.val) # byte_count
                 THEN message.kind = "ValueError"
                 ELSE /\ message.kind = "Message"
                      /\ message.opcode = mop.opcode
                      /\ message.data = mop.data.val
            ELSE /\ message.kind = "Message"
                 /\ message.opcode = mop.opcode
                 /\ Len(message.data) = byte_count
                 /\ \A k \in 1..byte_count : message.data[k] = 0

C10_Witness ==
    /\ mop.op = "new"
    /\ mop.data = Some(<<>>)
    /\ mop.opcode = OpCodeNamed("ACON")
    /\ message.kind = "ValueError"

\* C11: for every catalog opcode and every payload of exactly byte_count
\* bytes, Message.from_bytes(opcode byte ++ payload) is a Message equal to
\* Message(opcode, payload); and Message.from_bytes(m.message) is a Message
\* equal to m for every Message m, however m was built.
C11_MessageRoundTrip ==
    /\ (/\ mop.op = "from_bytes"
        /\ message # NoMessage
        /\ Len(mop.bytes) >= 1
        /\ mop.bytes[1] \in OpCodeValues
        /\ Len(mop.bytes) - 1 = mop.bytes[1] \div 32) =>
            /\ message.kind = "Message"
            /\ message.opcode = mop.bytes[1]
            /\ message.data = Tail(mop.bytes)
            /\ MessageNew(mop.bytes[1], Some(Tail(mop.bytes))).kind = "Message"
            /\ MessageEq(message, MessageNew(mop.bytes[1], Some(Tail(mop.bytes))))
    /\ mop.op = "reparse" =>
            /\ message.kind = "Message"
            /\ MessageEq(message, mop.orig)
            /\ message.opcode = mop.orig.opcode
            /\ message.data = mop.orig.data

C11_Witness ==
    /\ mop.op = "reparse"
    /\ mop.orig.opcode = OpCodeNamed("PLOC")
    /\ mop.orig.data[3] = 255
    /\ message.kind = "Message"
    /\ message.data = mop.orig.data

\* C12: Message.from_bytes yields no Message, and raises ValueError, when
\* the input is empty, when its first byte is no catalog opcode, or when the
\* bytes after the first are fewer or more than that opcode's byte_count;
\* in every other case it yields a Message.
C12_FromBytesFailsExactly ==
    (mop.op = "from_bytes" /\ message # NoMessage) =>
        LET data == mop.bytes
            bad  == \/ Len(data) = 0
                    \/ data[1] \notin OpCodeValues
                    \/ Len(data) - 1 < data[1] \div 32
                    \/ Len(data) - 1 > data[1] \div 32
        IN  IF bad THEN message.kind = "ValueError" ELSE message.kind = "Message"

C12_Witness ==
    /\ mop.op = "from_bytes"
    /\ mop.bytes = <<11>>
    /\ message.kind = "ValueError"

\* C15: for every opcode of the catalog byte_count equals value >> 5 and
\* lies in 0..7, and the byte values of the opcodes are pairwise distinct:
\* the opcode byte of a message names exactly one entry of the catalog.
C15_CatalogByteCount ==
    /\ \A o \in OpCode :
          /\ o.value \in 0..255
          /\ ByteCount(o.value) = o.value \div 32
          /\ ByteCount(o.value) \in 0..7
    /\ Cardinality(OpCodeValues) = Cardinality(OpCode)
    /\ message.kind = "Message" =>
          /\ Cardinality({o \in OpCode : o.value = message.opcode}) = 1
          /\ Len(message.data) = ByteCount(message.opcode)

C15_Witness ==
    /\ mop.op = "new"
    /\ mop.opcode = OpCodeNamed("ACON3")
    /\ mop.opcode = 240
    /\ message.kind = "Message"
    /\ Len(message.data) = 7

\* C19: every semantic constructor with a 16-bit field, called with
\* arguments in range, gives the message of its opcode whose payload holds
\* the arguments in order, each 16-bit one as high byte then low byte, each
\* 8-bit one as one byte: make_accesory_long_event_on(node, event) gives
\* ACON with (node >> 8, node & 0xFF, event >> 8, event & 0xFF), so
\* (10, 64321) gives 00 0A FB 41; make_command_station_report gives STAT
\* with the 2-byte node number, cs number, flags, major revision, minor
\* revision and the build byte, 0 when omitted.
C19_BigEndianLayout ==
    LET layout ==
            [make_accesory_long_event_on  |-> [name |-> "ACON",   w |-> <<2, 2>>],
             make_accesory_long_event_off |-> [name |-> "ACOF",   w |-> <<2, 2>>],
             make_command_station_error   |-> [name |-> "ERR",    w |-> <<2, 1>>],
             make_config_error            |-> [name |-> "CMDERR", w |-> <<2, 1>>],
             make_request_engine_session  |-> [name |-> "RLOC",   w |-> <<2>>],
             make_query_node_response     |-> [name |-> "PNN",    w |-> <<2, 1, 1, 1>>],
             make_parameter               |-> [name |-> "PARAN",  w |-> <<2, 1, 1>>],
             make_read_node_var           |-> [name |-> "NVANS",  w |-> <<2, 1, 1>>],
             make_node_number_ack         |-> [name |-> "NNACK",  w |-> <<2>>],
             make_write_ack               |-> [name |-> "WRACK",  w |-> <<2>>],
             make_stored_event_num        |-> [name |-> "NUMEV",  w |-> <<2, 1>>],
             make_event_read_resp         |-> [name |-> "ENRSP",  w |-> <<2, 2, 2, 1>>],
             make_event_value_read_resp   |-> [name |-> "NEVAL",  w |-> <<2, 1, 1, 1>>],
             make_command_station_report  |-> [name |-> "STAT",   w |-> <<2, 1, 1, 1, 1, 1>>]]
    IN  (mop.op \in DOMAIN layout /\ message # NoMessage) =>
            LET w == layout[mop.op].w
                args == IF Len(mop.args) < Len(w) THEN Append(mop.args, 0) ELSE mop.args
                offset(k) == (k - 1) + Cardinality({j \in 1..(k - 1) : w[j] = 2})
            IN  (\A k \in 1..Len(w) : args[k] \in 0..(IF w[k] = 2 THEN 65535 ELSE 255)) =>
                    /\ message.kind = "Message"
                    /\ message.opcode = OpCodeNamed(layout[mop.op].name)
                    /\ mop.op = "make_accesory_long_event_on" => message.opcode = 144
                    /\ mop.op = "make_command_station_report" => message.opcode = 227
                    /\ Len(message.data) = offset(Len(w) + 1)
                    /\ \A k \in 1..Len(w) :
                          IF w[k] = 2
                          THEN /\ message.data[offset(k) + 1] = args[k] \div 256
                               /\ message.data[offset(k) + 2] = args[k] % 256
                          ELSE message.data[offset(k) + 1] = args[k]

C19_Witness ==
    /\ mop = Call("make_accesory_long_event_on", <<10, 64321>>, None)
    /\ message.kind = "Message"
    /\ message.opcode = 144
    /\ message.data = <<0, 10, 251, 65>>

\* C20: make_engine_report(session, loco_address, speed, direction, fns)
\* with session a byte, loco_address a 16-bit value, any speed, direction 0
\* or 1 and fns omitted or three bytes gives a PLOC message whose 7 payload
\* bytes are session, the high and the low byte of loco_address, the byte
\* with speed & 0x7F in bits 0-6 and direction in bit 7, and the three bytes
\* of fns, 0, 0, 0 when fns is omitted.
C20_EngineReportLayout ==
    (/\ mop.op = "make_engine_report"
     /\ message # NoMessage
     /\ mop.args[1] \in 0..255
     /\ mop.args[2] \in 0..65535
     /\ mop.args[4] \in {0, 1}
     /\ mop.list.present =>
            (Len(mop.list.val) = 3 /\ \A k \in 1..3 : mop.list.val[k] \in 0..255)) =>
        /\ message.kind = "Message"
        /\ message.opcode = 225
        /\ message.opcode = OpCodeNamed("PLOC")
        /\ message.data = <<mop.args[1], mop.args[2] \div 256, mop.args[2] % 256,
                            (mop.args[3] % 128) + 128 * mop.args[4]>>
                          \o (IF mop.list.present THEN mop.list.val ELSE <<0, 0, 0>>)

C20_Witness ==
    /\ mop = Call("make_engine_report", <<16, 64321, 300, 1>>, None)
    /\ message.kind = "Message"
    /\ message.data = <<16, 251, 65, 172, 0, 0, 0>>

\* C21: make_module_name(name) gives a NAME message whose payload is
\* exactly 7 ASCII bytes: the first 7 characters of a name longer than 7
\* characters, and a name shorter than 7 characters padded on the left, so
\* that the name fills the last bytes of the payload.
C21_ModuleNameLeftPadded ==
    (mop.op = "make_module_name" /\ message # NoMessage
        /\ \A k \in 1..Len(mop.list.val) : mop.list.val[k] <= 127) =>
        LET name == mop.list.val
        IN  /\ message.kind = "Message"
            /\ message.opcode = OpCodeNamed("NAME")
            /\ Len(message.data) = 7
            /\ Len(name) >= 7 => message.data = SubSeq(name, 1, 7)
            /\ Len(name) < 7 =>
                   \A k \in 1..Len(name) : message.data[7 - Len(name) + k] = name[k]

\* C21 as amended: make_module_name(name) gives a NAME message whose
\* payload is exactly 7 bytes: the first 7 characters of the name, followed,
\* when the name is shorter than 7 characters, by zero bytes (the padding is
\* on the right); when one of the first 7 characters is not ASCII the call
\* fails with UnicodeEncodeError.
C21_ModuleNameRightPadded ==
    (mop.op = "make_module_name" /\ message # NoMessage) =>
        LET name == mop.list.val
            n == IF Len(name) < 7 THEN Len(name) ELSE 7
        IN  IF \E k \in 1..n : name[k] > 127
            THEN message.kind = "UnicodeEncodeError"
            ELSE /\ message.kind = "Message"
                 /\ message.opcode = OpCodeNamed("NAME")
                 /\ message.opcode = 226
                 /\ Len(message.data) = 7
                 /\ \A k \in 1..7 : message.data[k] = IF k <= n THEN name[k] ELSE 0

C21_Witness ==
    /\ mop.op = "make_module_name"
    /\ mop.list.val = <<67, 65, 78>>
    /\ message.kind = "Message"
    /\ message.data = <<67, 65, 78, 0, 0, 0, 0>>

\* C22: the human-readable form of a message is '<' NAME '>' followed, for
\* each payload byte in order, by '<', the byte in uppercase hex (without
\* leading zero) and '>'; the compact form is the opcode byte followed by
\* each payload byte, each as exactly two uppercase hex digits, so that its
\* length is 2 * (1 + byte_count) and reading it back as hex gives the
\* opcode byte followed by the payload.
C22_MessageRendering ==
    (message.kind = "Message" /\ encoded.kind = "str") =>
        LET digit == <<48, 49, 50, 51, 52, 53, 54, 55, 56, 57, 65, 66, 67, 68, 69, 70>>
            data == message.data
            text == encoded.val
            name == OpCodeNameText(message.opcode)
            start(k) == Len(name) + 2 + 3 * (k - 1)
                        + Cardinality({j \in 1..(k - 1) : data[j] >= 16})
        IN  IF encoded.of = "__str__"
            THEN /\ Len(text) = start(Len(data) + 1)
                 /\ text[1] = 60
                 /\ SubSeq(text, 2, Len(name) + 1) = name
                 /\ text[Len(name) + 2] = 62
                 /\ \A k \in 1..Len(data) :
                       /\ text[start(k) + 1] = 60
                       /\ IF data[k] < 16
                          THEN /\ text[start(k) + 2] = digit[data[k] + 1]
                               /\ text[start(k) + 3] = 62
                          ELSE /\ text[start(k) + 2] = digit[(data[k] \div 16) + 1]
                               /\ text[start(k) + 3] = digit[(data[k] % 16) + 1]
                               /\ text[start(k) + 4] = 62
            ELSE /\ Len(text) = 2 * (1 + message.opcode \div 32)
                 /\ \A k \in 1..Len(text) : text[k] \in (48..57) \cup (65..70)
                 /\ FromHex(text) = [kind |-> "bytes", val |-> <<message.opcode>> \o data]
                 /\ \A k \in 1..(Len(data) + 1) :
                       /\ text[2 * k - 1] = digit[((<<message.opcode>> \o data)[k] \div 16) + 1]
                       /\ text[2 * k] = digit[((<<message.opcode>> \o data)[k] % 16) + 1]

\* str(Message(OpCode.ACON, bytes([0x01, 0x10, 0x20, 0x30]))) is "<ACON><1><10><20><30>"
C22_Witness ==
    /\ message.kind = "Message"
    /\ message.opcode = OpCodeNamed("ACON")
    /\ message.data = <<1, 16, 32, 48>>
    /\ encoded.kind = "str"
    /\ encoded.of = "__str__"
    /\ encoded.val = <<60, 65, 67, 79, 78, 62, 60, 49, 62, 60, 49, 48, 62,
                       60, 50, 48, 62, 60, 51, 48, 62>>

----------------------------------------------------------------------------
(* Network frame                                                           *)

\* a Python value with its type: a bytes object never equals a str
PyBytes(v) == [type |-> "bytes", val |-> v]

PyStr(v) == [type |-> "str", val |-> v]

\* == between two Python values
PyEq(a, b) == a.type = b.type /\ a.val = b.val

\* Frame.FORMAT with any character accepted as mode
MatchLens_AnyMode(buf, i) ==
    {n \in 1..Len(buf) :
        /\ i + 7 + n <= Len(buf)
        /\ buf[i] = 58 /\ buf[i + 1] = 83
        /\ \A k \in 2..5 : IsHexDigit(buf[i + k])
        /\ \A k \in 0..(n - 1) : IsHexDigit(buf[i + 7 + k])
        /\ buf[i + 7 + n] = 59}

\* Frame.FORMAT at position i of buf: the lengths n the group ([0-9a-fA-F]+) can
\* take in a match of b":S([0-9a-fA-F]{4})([NR])([0-9a-fA-F]+);" starting at i
MatchLens(buf, i) ==
    {n \in 1..Len(buf) :
        /\ i + 7 + n <= Len(buf)
        /\ buf[i] = 58 /\ buf[i + 1] = 83
        /\ \A k \in 2..5 : IsHexDigit(buf[i + k])
        /\ buf[i + 6] \in {78, 82}
        /\ \A k \in 0..(n - 1) : IsHexDigit(buf[i + 7 + k])
        /\ buf[i + 7 + n] = 59}

Max(S) == CHOOSE x \in S : \A y \in S : y <= x

\* re.findall: the groups of the non-overlapping matches from pos on, left to
\* right; + is greedy; after a match the search resumes behind it
RECURSIVE FindAll(_, _)
FindAll(buf, pos) ==
    IF pos > Len(buf) THEN <<>>
    ELSE LET lens == MatchLens(buf, pos)
         IN  IF lens = {} THEN FindAll(buf, pos + 1)
             ELSE LET n == Max(lens)
                  IN  <<<<SubSeq(buf, pos + 2, pos + 5), <<buf[pos + 6]>>,
                          SubSeq(buf, pos + 7, pos + 6 + n)>>>>
                      \o FindAll(buf, pos + 8 + n)

\* the explicit tokenizer the specification describes in place of the
\* pattern: find ":S", read exactly 4 hex digits, read one mode character N
\* or R, read a run of one or more hex digits up to ";"; a match is emitted
\* on success, and a failed attempt resumes at the first byte not consumed
RECURSIVE Tokenize(_, _)
Tokenize(buf, pos) ==
    LET starts == {i \in pos..(Len(buf) - 1) : buf[i] = 58 /\ buf[i + 1] = 83}
    IN  IF starts = {} THEN <<>>
        ELSE LET i == CHOOSE x \in starts : \A y \in starts : x <= y
                 nohex(k) == k > Len(buf) \/ ~IsHexDigit(buf[k])
                 bad == {k \in (i + 2)..(i + 5) : nohex(k)}
                 stop == CHOOSE k \in (i + 7)..(Len(buf) + 1) :
                             nohex(k) /\ \A j \in (i + 7)..(k - 1) : ~nohex(j)
             IN  IF bad # {}
                 THEN Tokenize(buf, CHOOSE x \in bad : \A y \in bad : x <= y)
                 ELSE IF i + 6 > Len(buf) \/ buf[i + 6] \notin {78, 82}
                 THEN Tokenize(buf, i + 6)
                 ELSE IF stop = i + 7 \/ stop > Len(buf) \/ buf[stop] # 59
                 THEN Tokenize(buf, stop)
                 ELSE <<<<SubSeq(buf, i + 2, i + 5), <<buf[i + 6]>>, SubSeq(buf, i + 7, stop - 1)>>>>
                      \o Tokenize(buf, stop + 1)

NoFrame == [kind |-> "None"]

\* Frame.__init__
FrameNew(h, msg, rtr) == [kind |-> "Frame", header |-> h, message |-> msg, rtr |-> rtr]

\* Frame.__eq__ comparing the RTR flag as well
FrameEq_WithRtr(a, b) ==
    /\ HeaderEq(a.header, b.header)
    /\ a.rtr = b.rtr
    /\ IF a.message.kind = "Message" /\ b.message.kind = "Message"
       THEN MessageEq(a.message, b.message)
       ELSE a.message.kind = b.message.kind

\* Frame.__eq__ (Message.__eq__ is False against None)
FrameEq(a, b) ==
    /\ HeaderEq(a.header, b.header)
    /\ IF a.message.kind = "Message" /\ b.message.kind = "Message"
       THEN MessageEq(a.message, b.message)
       ELSE a.message.kind = b.message.kind

\* the RTR flag Frame.from_network_bytes gives a frame: frame[1] == "R"
RtrOf(mode) == PyEq(PyBytes(mode), PyStr(<<82>>))

\* the loop of Frame.from_network_bytes: the first exception ends the call
RECURSIVE DecodeFrames(_, _)
DecodeFrames(frames_spec, acc) ==
    IF frames_spec = <<>> THEN [kind |-> "list", val |-> acc]
    ELSE LET frame == Head(frames_spec)
             hb == FromHex(frame[1])
             h == IF hb.kind = "bytes" THEN HeaderFromBytes(hb.val) ELSE hb
             mb == FromHex(frame[3])
             msg == IF mb.kind = "bytes" THEN MessageFromBytes(mb.val) ELSE mb
         IN  IF h.kind # "Header" THEN h
             ELSE IF msg.kind # "Message" THEN msg
             ELSE DecodeFrames(Tail(frames_spec), Append(acc, FrameNew(h, msg, RtrOf(frame[2]))))

\* Frame.from_network_bytes scanning data behind the buffer of the call before
FromNetworkBytes_KeepsBuffer(data) == DecodeFrames(FindAll(buffer \o data, 1), <<>>)

\* Frame.from_network_bytes
FromNetworkBytes(data) == DecodeFrames(FindAll(data, 1), <<>>)

\* Frame.net_encoded_frame without the upper() of the header text
NetEncodedFrame_NoUpper(f) ==
    LET typ == IF ~f.rtr THEN <<78>> ELSE <<82>>
        msg == IF f.message.kind = "Message" THEN MessageAscii(f.message) ELSE <<>>
        ascii == AsciiHeader(f.header)
    IN  IF ascii.kind # "bytes" THEN ascii
        ELSE [kind |-> "bytes", val |-> <<58, 83>> \o ascii.val \o typ \o msg \o <<59>>]

\* Frame.net_encoded_frame
NetEncodedFrame(f) ==
    LET typ == IF ~f.rtr THEN <<78>> ELSE <<82>>
        msg == IF f.message.kind = "Message" THEN MessageAscii(f.message) ELSE <<>>
        ascii == AsciiHeader(f.header)
    IN  IF ascii.kind # "bytes" THEN ascii
        ELSE [kind |-> "bytes", val |-> <<58, 83>> \o Upper(ascii.val) \o typ \o msg \o <<59>>]

----------------------------------------------------------------------------
(* Operations on frames                                                    *)

MaxSegments == 2

\* header fields: (EMERGENCY, HIGH, 127) and a major priority of 3
HeaderTexts ==
    { <<48, 70, 69, 48>>,   \* "0FE0"
      <<67, 48, 48, 48>> }   \* "C000"

\* mode characters
ModeTexts ==
    { <<78>>,   \* "N"
      <<82>> }   \* "R"

\* message fields: QNN, DKEEP 16, no opcode 0x0B, RLOC one byte short, an odd
\* number of digits, no digit
MessageTexts ==
    { <<48, 68>>,   \* "0D"
      <<50, 51, 49, 48>>,   \* "2310"
      <<48, 66>>,   \* "0B"
      <<52, 48, 48, 48>>,   \* "4000"
      <<52, 48, 48>>,   \* "400"
      <<>> }   \* ""

\* lowercase digits, a bad mode character, a 3-digit header, noise, a frame
\* cut in two, a bare start, a header text with the unused low bits set
OtherTexts ==
    { <<58, 83, 98, 48, 97, 48, 78, 48, 100, 59>>,   \* ":Sb0a0N0d;"
      <<58, 83, 48, 70, 69, 48, 88, 48, 68, 59>>,   \* ":S0FE0X0D;"
      <<58, 83, 48, 70, 69, 78, 48, 68, 59>>,   \* ":S0FEN0D;"
      <<120>>,   \* "x"
      <<58, 83, 48, 70, 69, 48, 78, 50, 51>>,   \* ":S0FE0N23"
      <<49, 48, 59>>,   \* "10;"
      <<58, 83>>,   \* ":S"
      <<58, 83, 48, 70, 70, 70, 78, 48, 68, 59>> }   \* ":S0FFFN0D;"

\* the pieces a buffer is made of
Segments ==
    {<<58, 83>> \o h \o t \o m \o <<59>> : h \in HeaderTexts, t \in ModeTexts, m \in MessageTexts}
    \cup OtherTexts

RECURSIVE BuffersOf(_)
BuffersOf(n) ==
    IF n = 0 THEN {<<>>}
    ELSE LET shorter == BuffersOf(n - 1)
         IN  shorter \cup {b \o s : b \in shorter, s \in Segments}

\* the buffers scanned: up to MaxSegments pieces, one after the other
Buffers == BuffersOf(MaxSegments)

\* the headers of the frames encoded: every Header the constructor accepts
FrameHeaders ==
    {h \in {HeaderNew(maj, min, id) : maj \in MajorPriority, min \in MinorPriority, id \in CanIds} :
        h.kind = "Header"}

\* the messages of the frames encoded: none, or one the constructors accept
FrameMessages ==
    {NoMessage, make_acknowledge, MessageNew(OpCodeNamed("QNN"), None),
     make_session_keep_alive(16), make_request_engine_session(10),
     make_accesory_long_event_on(10, 64321),
     MessageNew(OpCodeNamed("EXTC6"), Some(<<1, 35, 69, 103, 137, 171, 205>>))}

FramesIn == {FrameNew(h, m, r) : h \in FrameHeaders, m \in FrameMessages, r \in BOOLEAN}

NoResult == [kind |-> "None"]

\* Frame.from_network_bytes(buffer)
DoFromNetworkBytes ==
    /\ fin = NoFrame
    /\ frames = NoResult
    /\ frames' = FromNetworkBytes(buffer)
    /\ UNCHANGED <<buffer, fin, encoded, hvars, mvars, xvars>>

\* fin.net_encoded_frame
DoNetEncodedFrame ==
    /\ fin.kind = "Frame"
    /\ encoded = NoResult
    /\ encoded' = NetEncodedFrame(fin)
    /\ UNCHANGED <<buffer, frames, fin, hvars, mvars, xvars>>

\* Frame.from_network_bytes(fin.net_encoded_frame)
DoDecodeEncoded ==
    /\ fin.kind = "Frame"
    /\ encoded.kind = "bytes"
    /\ frames = NoResult
    /\ buffer' = encoded.val
    /\ frames' = FromNetworkBytes(encoded.val)
    /\ UNCHANGED <<fin, encoded, hvars, mvars, xvars>>

\* the buffer with its hex letters a-f written as A-F (upper) or the reverse
Recase(s, upper) ==
    [k \in 1..Len(s) |->
        IF upper /\ s[k] \in 97..102 THEN s[k] - 32
        ELSE IF ~upper /\ s[k] \in 65..70 THEN s[k] + 32
        ELSE s[k]]

\* Frame.from_network_bytes of the buffer already scanned, in upper and in
\* lower case hex letters
DoScanRecased ==
    /\ fin = NoFrame
    /\ frames # NoResult
    /\ scans = <<>>
    /\ scans' = <<[data |-> Recase(buffer, TRUE), result |-> FromNetworkBytes(Recase(buffer, TRUE))],
                  [data |-> Recase(buffer, FALSE), result |-> FromNetworkBytes(Recase(buffer, FALSE))]>>
    /\ UNCHANGED <<other, equal, todo, hvars, mvars, fvars>>

Init ==
    /\ \/ buffer \in Buffers /\ fin = NoFrame
       \/ buffer = <<>> /\ fin \in FramesIn
    /\ frames = NoResult
    /\ encoded = NoResult
    /\ hop = NoOp
    /\ header = NoHeader
    /\ mop = NoOp
    /\ message = NoMessage
    /\ other = [kind |-> "None"]
    /\ equal = [kind |-> "None"]
    /\ todo = <<>>
    /\ scans = <<>>

Next == DoFromNetworkBytes \/ DoNetEncodedFrame \/ DoDecodeEncoded \/ DoScanRecased

Spec == Init /\ [][Next]_vars

----------------------------------------------------------------------------
(* Assignments to Header.major_priority, in the package module             *)
(* src/cbus4py/cbus4py.py and in the module src/cbus4py.py, whose Header   *)
(* is the same but for this setter                                         *)

MaxSets == 2

\* Header.major_priority = value in src/cbus4py/cbus4py.py
SetMajorPriority(h, value) ==
    [h EXCEPT !.major = value,
              !.sidh = MakeSidh(value, h.minor, h.can_id),
              !.sidl = MakeSidl(h.can_id)]

\* Header.major_priority = value in src/cbus4py.py: no call of _make_header
TopSetMajorPriority(h, value) == [h EXCEPT !.major = value]

DoSetMajorPriority ==
    /\ hop.op = "major_priority"
    /\ hop.module = "cbus4py/cbus4py.py"
    /\ hop.n < MaxSets
    /\ \E value \in MajorPriority : header' = SetMajorPriority(header, value)
    /\ hop' = [hop EXCEPT !.n = hop.n + 1]
    /\ UNCHANGED <<mvars, fvars, xvars>>

DoTopSetMajorPriority ==
    /\ hop.op = "major_priority"
    /\ hop.module = "cbus4py.py"
    /\ hop.n < MaxSets
    /\ \E value \in MajorPriority : header' = TopSetMajorPriority(header, value)
    /\ hop' = [hop EXCEPT !.n = hop.n + 1]
    /\ UNCHANGED <<mvars, fvars, xvars>>

\* a Header just constructed in one of the two modules, no assignment yet
InitSetter ==
    /\ header \in FrameHeaders
    /\ hop \in {[op |-> "major_priority", module |-> f, n |-> 0] :
                    f \in {"cbus4py/cbus4py.py", "cbus4py.py"}}
    /\ mop = NoOp
    /\ message = NoMessage
    /\ buffer = <<>>
    /\ frames = NoResult
    /\ fin = NoFrame
    /\ encoded = NoResult
    /\ other = NoResult
    /\ equal = NoResult
    /\ todo = <<>>
    /\ scans = <<>>

SpecSetter == InitSetter /\ [][DoSetMajorPriority \/ DoTopSetMajorPriority]_vars

----------------------------------------------------------------------------
(* Two objects compared with ==, and several scans one after the other     *)

\* the right operands of Header.__eq__: every priority with a few ids
EqHeaders ==
    {HeaderNew(maj, min, id) :
        maj \in MajorPriority, min \in MinorPriority, id \in {0 - NegIds, 0, 1, 8, MaxCanId}}

\* the operands of Frame.__eq__
EqFrames ==
    {FrameNew(HeaderNew(maj, min, id), msg, rtr) :
        maj \in {HIGH, NORMAL}, min \in {MIN_NORMAL, MIN_LOW}, id \in {0 - NegIds, 0, 1},
        msg \in FrameMessages, rtr \in BOOLEAN}

\* the buffers handed to Frame.from_network_bytes, call after call, when the
\* stream pre ++ t ++ post is read in two pieces a and b cut inside t: a, b,
\* then for comparison a ++ b, t, pre, post and once more a and b.  t is
\* the text of one frame (DKEEP 16, QNN as RTR, QNN in lowercase digits);
\* pre and post are nothing, a whole frame (ACK) or noise
ScanCalls ==
    LET SplitTexts ==
            { <<58, 83, 48, 70, 69, 48, 78, 50, 51, 49, 48, 59>>,   \* ":S0FE0N2310;"
              <<58, 83, 48, 70, 69, 48, 82, 48, 68, 59>>,   \* ":S0FE0R0D;"
              <<58, 83, 98, 48, 97, 48, 78, 48, 100, 59>> }   \* ":Sb0a0N0d;"
        AroundTexts ==
            { <<>>,
              <<58, 83, 48, 70, 69, 48, 78, 48, 48, 59>>,   \* ":S0FE0N00;"
              <<120>> }   \* "x"
    IN  UNION {{LET a == pre \o SubSeq(t, 1, k)
                    b == SubSeq(t, k + 1, Len(t)) \o post
                IN  <<a, b, a \o b, t, pre, post, a, b>> :
                   pre \in AroundTexts, post \in AroundTexts, k \in 1..(Len(t) - 1)} :
               t \in SplitTexts}

\* header == other
DoHeaderEq ==
    /\ header.kind = "Header"
    /\ equal = NoResult
    /\ equal' = [kind |-> "bool", val |-> HeaderEq(header, other)]
    /\ UNCHANGED <<hop, header, other, todo, scans, mvars, fvars>>

\* fin == other
DoFrameEq ==
    /\ fin.kind = "Frame"
    /\ equal = NoResult
    /\ equal' = [kind |-> "bool", val |-> FrameEq(fin, other)]
    /\ UNCHANGED <<other, todo, scans, hvars, mvars, fvars>>

\* Frame.from_network_bytes(Head(todo)): the next call of the sequence
DoScanNext ==
    /\ todo # <<>>
    /\ buffer' = Head(todo)
    /\ frames' = FromNetworkBytes(Head(todo))
    /\ scans' = Append(scans, [data |-> Head(todo), result |-> frames'])
    /\ todo' = Tail(todo)
    /\ UNCHANGED <<fin, encoded, other, equal, hvars, mvars>>

\* Frame.make_void without rtr=True
make_void_NoRtr(can_id) ==
    LET h == HeaderNew(NORMAL, MIN_LOW, can_id)
    IN  IF h.kind = "Header" THEN FrameNew(h, NoMessage, FALSE) ELSE h

\* Frame.make_void in src/cbus4py/cbus4py.py
make_void(can_id) ==
    LET h == HeaderNew(NORMAL, MIN_LOW, can_id)
    IN  IF h.kind = "Header" THEN FrameNew(h, NoMessage, TRUE) ELSE h

\* Frame.make_void in src/cbus4py.py: rtr is left at its default
top_make_void(can_id) ==
    LET h == HeaderNew(NORMAL, MIN_LOW, can_id)
    IN  IF h.kind = "Header" THEN FrameNew(h, NoMessage, FALSE) ELSE h

\* Frame.make_void in src/mpi_cbus/mpi_cbus.py: rtr is left at its default
mpi_make_void(can_id) ==
    LET h == HeaderNew(NORMAL, MIN_LOW, can_id)
    IN  IF h.kind = "Header" THEN FrameNew(h, NoMessage, FALSE) ELSE h

\* Frame.make_void(can_id) called in the modules hop.left and hop.right
DoMakeVoid ==
    /\ hop.op = "make_void"
    /\ fin = NoFrame
    /\ LET made(module) == CASE module = "cbus4py/cbus4py.py" -> make_void(hop.can_id)
                              [] module = "cbus4py.py" -> top_make_void(hop.can_id)
                              [] module = "mpi_cbus/mpi_cbus.py" -> mpi_make_void(hop.can_id)
       IN  /\ fin' = made(hop.left)
           /\ other' = made(hop.right)
    /\ UNCHANGED <<hop, header, buffer, frames, encoded, equal, todo, scans, mvars>>

\* net_encoded_frame of the two frames made
DoEncodeBoth ==
    /\ hop.op = "make_void"
    /\ fin.kind = "Frame"
    /\ encoded = NoResult
    /\ encoded' = [kind |-> "pair", left |-> NetEncodedFrame(fin), right |-> NetEncodedFrame(other)]
    /\ UNCHANGED <<buffer, frames, fin, hvars, mvars, xvars>>

InitPairs ==
    /\ \/ header \in FrameHeaders /\ other \in EqHeaders /\ fin = NoFrame /\ todo = <<>> /\ hop = NoOp
       \/ header = NoHeader /\ fin \in EqFrames /\ other \in EqFrames /\ todo = <<>> /\ hop = NoOp
       \/ header = NoHeader /\ fin = NoFrame /\ other = NoResult /\ todo \in ScanCalls /\ hop = NoOp
       \/ /\ header = NoHeader /\ fin = NoFrame /\ other = NoResult /\ todo = <<>>
          /\ hop \in LET Modules == {"cbus4py/cbus4py.py", "cbus4py.py", "mpi_cbus/mpi_cbus.py"}
                     IN  {[op |-> "make_void", can_id |-> id, left |-> l, right |-> r] :
                             id \in CanIds, l \in Modules, r \in Modules}
    /\ equal = NoResult
    /\ scans = <<>>
    /\ buffer = <<>>
    /\ frames = NoResult
    /\ encoded = NoResult
    /\ mop = NoOp
    /\ message = NoMessage

NextPairs == DoHeaderEq \/ DoFrameEq \/ DoScanNext \/ DoMakeVoid \/ DoEncodeBoth

SpecPairs == InitPairs /\ [][NextPairs]_vars

----------------------------------------------------------------------------
(* The TCP handler of src/mpi_cbus/mpi_cbus_server.py.  todo holds the     *)
(* chunks still to arrive on the connection, buffer is self.data, frames   *)
(* is req_frames, scans is the log, hop.at is the handler's position       *)

\* the size handed to recv
RecvSize == 32

\* bytes.strip(): ASCII whitespace removed at both ends
Strip(s) ==
    LET keep == {i \in 1..Len(s) : s[i] \notin {9, 10, 11, 12, 13, 32}}
    IN  IF keep = {} THEN <<>>
        ELSE SubSeq(s, CHOOSE i \in keep : \A j \in keep : i <= j, Max(keep))

\* Frame.parse_from_network of src/mpi_cbus/mpi_cbus.py: the same pattern,
\* Header.parse and Message.parse with the bodies of from_bytes
parse_from_network(data) == DecodeFrames(FindAll(data, 1), <<>>)

\* str(frame) of src/mpi_cbus/mpi_cbus.py: "<major><minor><can_id>" in
\* decimal, then the text of the message
MpiFrameStr(f) ==
    LET RECURSIVE Dec(_)
        Dec(n) == IF n < 10 THEN <<48 + n>> ELSE Dec(n \div 10) \o <<48 + (n % 10)>>
        Group(n) == <<60>> \o Dec(n) \o <<62>>
    IN  Group(f.header.major) \o Group(f.header.minor) \o Group(f.header.can_id)
        \o MessageStr(f.message)

\* self.data = self.request.recv(32).strip(); an empty result ends the loop.
\* recv gives at most RecvSize bytes of the chunk that arrived, and b"" when
\* the peer has closed the connection
DoRecv ==
    /\ hop.op = "handle"
    /\ hop.at = "recv"
    /\ LET chunk == IF todo = <<>> THEN <<>> ELSE Head(todo)
           got == IF Len(chunk) > RecvSize THEN SubSeq(chunk, 1, RecvSize) ELSE chunk
           left == IF Len(chunk) > RecvSize
                   THEN <<SubSeq(chunk, RecvSize + 1, Len(chunk))>> \o Tail(todo)
                   ELSE IF todo = <<>> THEN <<>> ELSE Tail(todo)
       IN  /\ buffer' = Strip(got)
           /\ todo' = left
           /\ hop' = [hop EXCEPT !.at = IF Len(Strip(got)) = 0 THEN "done" ELSE "parse"]
    /\ UNCHANGED <<frames, fin, encoded, mvars, header, other, equal, scans>>

\* req_frames = Frame.parse_from_network(self.data) and the loop that logs
\* "IN : " and the text of each frame; an exception of the parse leaves handle
DoLogFrames ==
    /\ hop.op = "handle"
    /\ hop.at = "parse"
    /\ LET req_frames == parse_from_network(buffer)
           RECURSIVE LogLines(_)
           LogLines(fs) ==
               IF fs = <<>> THEN <<>>
               ELSE <<<<73, 78, 32, 58, 32>> \o MpiFrameStr(Head(fs))>> \o LogLines(Tail(fs))
       IN  /\ frames' = req_frames
           /\ scans' = IF req_frames.kind = "list" THEN scans \o LogLines(req_frames.val) ELSE scans
           /\ hop' = [hop EXCEPT !.at = IF req_frames.kind = "list" THEN "recv" ELSE "raised"]
    /\ UNCHANGED <<buffer, todo, fin, encoded, mvars, header, other, equal>>

\* a connection on which the text of one frame arrives, alone or followed by
\* a line end, whole in one chunk or cut in two chunks at any place
InitServer ==
    /\ hop \in {[op |-> "handle", at |-> "recv", text |-> seg \o end, cut |-> k] :
                    seg \in Segments \ OtherTexts, end \in {<<>>, <<13, 10>>}, k \in 1..14}
    /\ hop.cut <= Len(hop.text)
    /\ todo = IF hop.cut = Len(hop.text) THEN <<hop.text>>
              ELSE <<SubSeq(hop.text, 1, hop.cut), SubSeq(hop.text, hop.cut + 1, Len(hop.text))>>
    /\ header = NoHeader
    /\ mop = NoOp
    /\ message = [kind |-> "None"]
    /\ buffer = <<>>
    /\ frames = NoResult
    /\ fin = NoFrame
    /\ encoded = NoResult
    /\ other = [kind |-> "None"]
    /\ equal = [kind |-> "None"]
    /\ scans = <<>>

\* the handler runs in its own thread of control until handle returns, and
\* recv returns once a chunk has arrived or the peer has closed: the handler
\* does not stop while it has a step to take.  Every step of the handler
\* changes hop.at, and one is possible exactly at "recv" and at "parse"
SpecServer ==
    /\ InitServer
    /\ [][DoRecv \/ DoLogFrames]_vars
    /\ WF_hop(/\ hop.op = "handle"
              /\ hop.at \in {"recv", "parse"}
              /\ \E at \in {"recv", "parse", "done", "raised"} \ {hop.at} :
                     hop' = [hop EXCEPT !.at = at])

----------------------------------------------------------------------------
(* The Frame.make_* factories that carry a message                         *)

\* the factories with the header of make_void: minor priority LOW for all
FrameMake_AllLow(call, can_id) ==
    LET read == CASE call.op = "make_emergency_stop" -> "ESTOP"
                  [] call.op = "make_engine_report" -> "PLOC"
                  [] call.op = "make_command_station_error" -> "ERR"
                  [] call.op = "make_command_station_report" -> "STAT"
                  [] call.op = "make_query_node_response" -> "PNN"
                  [] call.op = "make_node_params" -> "PARAMS"
                  [] call.op = "make_node_number_ack" -> "NNACK"
                  [] call.op = "make_parameter" -> "PARAN"
                  [] call.op = "make_read_node_var" -> "NVANS"
                  [] call.op = "make_config_error" -> "CMDERR"
                  [] call.op = "make_module_name" -> "NAME"
                  [] call.op = "make_write_ack" -> "WRACK"
                  [] call.op = "make_stored_event_num" -> "NUMEV"
                  [] call.op = "make_event_read_resp" -> "NUMEV"
                  [] call.op = "make_event_value_read_resp" -> "NUMEV"
        a == call.args
        h == HeaderNew(NORMAL, MIN_LOW, can_id)
        msg == CASE call.op = "make_emergency_stop" -> make_emergency_stop
                 [] call.op = "make_engine_report" ->
                        make_engine_report(a[1], a[2], a[3], a[4],
                                           IF call.list.present THEN call.list ELSE Some(<<0, 0, 0>>))
                 [] call.op = "make_command_station_error" -> make_command_station_error(a[1], a[2])
                 [] call.op = "make_command_station_report" ->
                        make_command_station_report(a[1], a[2], a[3], a[4], a[5],
                                                    IF Len(a) = 6 THEN a[6] ELSE 0)
                 [] call.op = "make_query_node_response" -> make_query_node_response(a[1], a[2], a[3], a[4])
                 [] call.op = "make_node_params" -> make_node_params(call.list.val)
                 [] call.op = "make_node_number_ack" -> make_node_number_ack(a[1])
                 [] call.op = "make_parameter" -> make_parameter(a[1], a[2], a[3])
                 [] call.op = "make_read_node_var" -> make_read_node_var(a[1], a[2], a[3])
                 [] call.op = "make_config_error" -> make_config_error(a[1], a[2])
                 [] call.op = "make_module_name" -> make_module_name(call.list.val)
                 [] call.op = "make_write_ack" -> make_write_ack(a[1])
                 [] call.op = "make_stored_event_num" -> make_stored_event_num(a[1], a[2])
                 [] call.op = "make_event_read_resp" -> make_event_read_resp(a[1], a[2], a[3], a[4])
                 [] call.op = "make_event_value_read_resp" -> make_event_value_read_resp(a[1], a[2], a[3], a[4])
    IN  IF h.kind # "Header" THEN h
        ELSE IF msg.kind # "Message" THEN msg
        ELSE FrameNew(h, msg, FALSE)

\* Frame.make_*(can_id, ...): the header is built first, with the default
\* minor priority of the opcode the factory reads, then the message
FrameMake(call, can_id) ==
    LET read == CASE call.op = "make_emergency_stop" -> "ESTOP"
                  [] call.op = "make_engine_report" -> "PLOC"
                  [] call.op = "make_command_station_error" -> "ERR"
                  [] call.op = "make_command_station_report" -> "STAT"
                  [] call.op = "make_query_node_response" -> "PNN"
                  [] call.op = "make_node_params" -> "PARAMS"
                  [] call.op = "make_node_number_ack" -> "NNACK"
                  [] call.op = "make_parameter" -> "PARAN"
                  [] call.op = "make_read_node_var" -> "NVANS"
                  [] call.op = "make_config_error" -> "CMDERR"
                  [] call.op = "make_module_name" -> "NAME"
                  [] call.op = "make_write_ack" -> "WRACK"
                  [] call.op = "make_stored_event_num" -> "NUMEV"
                  [] call.op = "make_event_read_resp" -> "NUMEV"
                  [] call.op = "make_event_value_read_resp" -> "NUMEV"
        a == call.args
        h == HeaderNew(NORMAL, (CHOOSE o \in OpCode : o.name = read).minor, can_id)
        msg == CASE call.op = "make_emergency_stop" -> make_emergency_stop
                 [] call.op = "make_engine_report" ->
                        make_engine_report(a[1], a[2], a[3], a[4],
                                           IF call.list.present THEN call.list ELSE Some(<<0, 0, 0>>))
                 [] call.op = "make_command_station_error" -> make_command_station_error(a[1], a[2])
                 [] call.op = "make_command_station_report" ->
                        make_command_station_report(a[1], a[2], a[3], a[4], a[5],
                                                    IF Len(a) = 6 THEN a[6] ELSE 0)
                 [] call.op = "make_query_node_response" -> make_query_node_response(a[1], a[2], a[3], a[4])
                 [] call.op = "make_node_params" -> make_node_params(call.list.val)
                 [] call.op = "make_node_number_ack" -> make_node_number_ack(a[1])
                 [] call.op = "make_parameter" -> make_parameter(a[1], a[2], a[3])
                 [] call.op = "make_read_node_var" -> make_read_node_var(a[1], a[2], a[3])
                 [] call.op = "make_config_error" -> make_config_error(a[1], a[2])
                 [] call.op = "make_module_name" -> make_module_name(call.list.val)
                 [] call.op = "make_write_ack" -> make_write_ack(a[1])
                 [] call.op = "make_stored_event_num" -> make_stored_event_num(a[1], a[2])
                 [] call.op = "make_event_read_resp" -> make_event_read_resp(a[1], a[2], a[3], a[4])
                 [] call.op = "make_event_value_read_resp" -> make_event_value_read_resp(a[1], a[2], a[3], a[4])
    IN  IF h.kind # "Header" THEN h
        ELSE IF msg.kind # "Message" THEN msg
        ELSE FrameNew(h, msg, FALSE)

\* one call of a factory
DoFrameMake ==
    /\ hop.op = "make_frame"
    /\ fin = NoFrame
    /\ fin' = FrameMake(mop, hop.can_id)
    /\ UNCHANGED <<buffer, frames, encoded, hvars, mvars, xvars>>

\* the calls tried: every factory, its message arguments in and out of
\* range, and source ids at both ends of the range
InitFactory ==
    /\ mop \in {c \in MessageCalls : c.op \in
                  {"make_emergency_stop", "make_engine_report", "make_command_station_error",
                   "make_command_station_report", "make_query_node_response", "make_node_params",
                   "make_node_number_ack", "make_parameter", "make_read_node_var",
                   "make_config_error", "make_module_name", "make_write_ack",
                   "make_stored_event_num", "make_event_read_resp", "make_event_value_read_resp"}}
    /\ hop \in {[op |-> "make_frame", can_id |-> id] : id \in {i \in CanIds : i < 1 \/ i > MaxCanId - 1}}
    /\ header = NoHeader
    /\ message = NoMessage
    /\ buffer = <<>>
    /\ frames = NoResult
    /\ fin = NoFrame
    /\ encoded = NoResult
    /\ other = [kind |-> "None"]
    /\ equal = [kind |-> "None"]
    /\ todo = <<>>
    /\ scans = <<>>

SpecFactory == InitFactory /\ [][DoFrameMake]_vars

----------------------------------------------------------------------------
(* Claims about the frame                                                  *)

\* C1: Frame.from_network_bytes never fails: for every buffer, also one
\* holding frame-shaped text with an odd number of message digits, an unknown
\* opcode, a payload of the wrong length or a major priority of 3, it
\* returns a (possibly empty) sequence of frames.
C1_ScanNeverFails ==
    (fin = NoFrame /\ frames # NoResult) => frames.kind = "list"

\* C2: for every frame text the scanner matches, the decoded frame is RTR
\* when the mode character is 'R' and not RTR when it is 'N'.
C2_ModeSelectsRtr ==
    (fin = NoFrame /\ frames.kind = "list") =>
        LET frames_spec == FindAll(buffer, 1)
        IN  \A k \in 1..Len(frames.val) :
                frames.val[k].rtr = (frames_spec[k][2] = <<82>>)

\* C3 as stated: for any frame f, RTR or not, with or without a message,
\* whose header and message the constructors accepted, scanning
\* f.net_encoded_frame gives exactly one frame and that frame equals f.
C3_FrameRoundTrip ==
    (fin.kind = "Frame" /\ frames # NoResult) =>
        /\ frames.kind = "list"
        /\ Len(frames.val) = 1
        /\ FrameEq(frames.val[1], fin)

\* C3 as amended: for a frame f, RTR or not, that carries a message and whose
\* header has a source id in 0..127, scanning f.net_encoded_frame gives
\* exactly one frame and that frame equals f; for a frame without message
\* the scan gives the empty sequence; for a header with a source id below 0
\* net_encoded_frame raises ValueError.
C3_FrameRoundTripWithMessage ==
    (fin.kind = "Frame" /\ encoded # NoResult) =>
        IF ~ValidCanId(fin.header.can_id)
        THEN encoded.kind = "ValueError"
        ELSE /\ encoded.kind = "bytes"
             /\ frames # NoResult =>
                   IF fin.message.kind = "Message"
                   THEN /\ frames.kind = "list"
                        /\ Len(frames.val) = 1
                        /\ FrameEq(frames.val[1], fin)
                   ELSE frames = [kind |-> "list", val |-> <<>>]

C3_Witness ==
    /\ fin.kind = "Frame"
    /\ fin.rtr
    /\ fin.header.can_id = 33
    /\ fin.message = make_accesory_long_event_on(10, 64321)
    /\ frames.kind = "list"
    /\ Len(frames.val) = 1
    /\ frames.val[1].message = fin.message

\* C4: Frame.from_network_bytes returns one frame per non-overlapping match
\* of the frame shape, in the order of the matches; what lies outside the
\* matches adds nothing and a buffer without match gives the empty sequence.
C4_OneFramePerMatch ==
    (fin = NoFrame /\ frames # NoResult) =>
        LET frames_spec == FindAll(buffer, 1)
        IN  /\ frames.kind = "list"
            /\ Len(frames.val) = Len(frames_spec)
            /\ \A k \in 1..Len(frames_spec) :
                  /\ frames.val[k].header = HeaderFromBytes(HexPairs(frames_spec[k][1]))
                  /\ frames.val[k].message = MessageFromBytes(HexPairs(frames_spec[k][3]))

\* C13: for a frame whose header bytes sidh and sidl are bytes,
\* net_encoded_frame is exactly the text ':S', the 4 uppercase hex digits of
\* (sidh, sidl), 'N' for a normal frame or 'R' for an RTR frame, two
\* uppercase hex digits for the opcode and for each payload byte of the
\* message (nothing when there is no message), then ';'.
C13_EncodedText ==
    (/\ fin.kind = "Frame"
     /\ encoded # NoResult
     /\ fin.header.sidh \in 0..255
     /\ fin.header.sidl \in 0..255) =>
        LET digit == <<48, 49, 50, 51, 52, 53, 54, 55, 56, 57, 65, 66, 67, 68, 69, 70>>
            hex(b) == [k \in 1..(2 * Len(b)) |->
                          IF k % 2 = 1 THEN digit[(b[(k + 1) \div 2] \div 16) + 1]
                                       ELSE digit[(b[(k + 1) \div 2] % 16) + 1]]
            body == IF fin.message.kind = "Message"
                    THEN <<fin.message.opcode>> \o fin.message.data
                    ELSE <<>>
        IN  /\ encoded.kind = "bytes"
            /\ encoded.val = <<58, 83>> \o hex(<<fin.header.sidh, fin.header.sidl>>)
                                \o (IF fin.rtr THEN <<82>> ELSE <<78>>)
                                \o hex(body) \o <<59>>

C13_Witness ==
    /\ fin.kind = "Frame"
    /\ fin.rtr
    /\ fin.message = make_accesory_long_event_on(10, 64321)
    /\ encoded.kind = "bytes"
    /\ SubSeq(encoded.val, 1, 3) = <<58, 83, 66>>
    /\ SubSeq(encoded.val, 7, 17) = <<82, 57, 48, 48, 48, 48, 65, 70, 66, 52, 49>>

\* C14: net_encoded_frame returns bytes, without failing, for every Frame
\* built from a Header the Header constructor accepted and a Message the
\* Message constructor accepted, or from no message.
C14_EncodingTotal ==
    (fin.kind = "Frame" /\ encoded # NoResult) => encoded.kind = "bytes"

\* C16: two frames are equal exactly when their headers are equal (the
\* same packed bytes) and their messages are equal (both absent, or the same
\* opcode and payload), whatever their RTR flags; frames that differ in
\* header or in message are unequal.
C16_FrameEquality ==
    (fin.kind = "Frame" /\ equal # NoResult) =>
        equal.val = (/\ fin.header.sidh = other.header.sidh
                     /\ fin.header.sidl = other.header.sidl
                     /\ fin.message = other.message)

C16_Witness ==
    /\ fin.kind = "Frame"
    /\ equal = [kind |-> "bool", val |-> TRUE]
    /\ fin.rtr
    /\ ~other.rtr
    /\ fin.message.kind = "Message"

\* C17: two headers are equal exactly when their packed bytes (sidh, sidl)
\* are identical; for headers with a source id in 0..127 that is exactly
\* when major priority, minor priority and source id are the same.
C17_HeaderEquality ==
    (header.kind = "Header" /\ equal # NoResult) =>
        LET same(a, b) == a.major = b.major /\ a.minor = b.minor /\ a.can_id = b.can_id
        IN  /\ equal.val = (header.sidh = other.sidh /\ header.sidl = other.sidl)
            /\ (ValidCanId(header.can_id) /\ ValidCanId(other.can_id)) =>
                   equal.val = same(header, other)
            /\ (ValidCanId(header.can_id) /\ other = HeaderNew(EMERGENCY, MIN_HIGH, 0)) =>
                   \A h \in FrameHeaders :
                       ValidCanId(h.can_id) => (HeaderEq(header, h) <=> same(header, h))

C17_Witness ==
    /\ header.kind = "Header"
    /\ header.major = other.major
    /\ header.minor = other.minor
    /\ header.can_id = 9
    /\ other.can_id = 1
    /\ equal = [kind |-> "bool", val |-> FALSE]

\* C18: the scanner keeps nothing between calls: within a sequence of calls
\* the same buffer always gives the same result, whatever was scanned
\* before; and when the text of a frame t is cut across the buffers
\* a = pre ++ (start of t) and b = (rest of t) ++ post, the scan of a gives
\* the frames of pre only and the scan of b the frames of post only, while
\* the scan of a ++ b gives the frames of pre, the frame of t and the
\* frames of post.
C18_ScannerStateless ==
    /\ \A i \in DOMAIN scans : \A j \in DOMAIN scans :
          scans[i].data = scans[j].data => scans[i].result = scans[j].result
    /\ \A i \in DOMAIN scans : scans[i].result.kind = "list"
    /\ Len(scans) >= 6 =>
          LET ra == scans[1].result.val
              rb == scans[2].result.val
              rab == scans[3].result.val
              rt == scans[4].result.val
              rpre == scans[5].result.val
              rpost == scans[6].result.val
          IN  /\ Len(rt) = 1
              /\ ra = rpre
              /\ rb = rpost
              /\ rab = rpre \o rt \o rpost
              /\ scans[3].data = scans[4].data => (ra = <<>> /\ rb = <<>> /\ rab = rt)

C18_Witness ==
    /\ Len(scans) = 8
    /\ scans[1].data = <<58, 83, 48, 70, 69, 48, 78, 50, 51>>
    /\ scans[2].data = <<49, 48, 59>>
    /\ scans[1].result.val = <<>>
    /\ scans[2].result.val = <<>>
    /\ Len(scans[3].result.val) = 1
    /\ scans[3].result.val[1].message = make_session_keep_alive(16)
    /\ scans[8].result.val = <<>>

\* C23: decoding does not depend on the case of hex digits: the scan of a
\* buffer, the scan of the buffer with its hex letters a-f written A-F and
\* the scan of the buffer with its hex letters A-F written a-f give the
\* same result, frame for frame.
C23_CaseInsensitive ==
    (fin = NoFrame /\ scans # <<>>) =>
        \A i \in DOMAIN scans :
            /\ scans[i].result.kind = frames.kind
            /\ scans[i].result = frames
            /\ frames.kind = "list" =>
                  /\ Len(scans[i].result.val) = Len(frames.val)
                  /\ \A k \in 1..Len(frames.val) : FrameEq(scans[i].result.val[k], frames.val[k])

C23_Witness ==
    /\ buffer = <<58, 83, 98, 48, 97, 48, 78, 48, 100, 59>>
    /\ Len(scans) = 2
    /\ scans[1].data = <<58, 83, 66, 48, 65, 48, 78, 48, 68, 59>>
    /\ frames.kind = "list"
    /\ Len(frames.val) = 1
    /\ scans[1].result = frames

\* C24: after the construction of a Header and any number of assignments
\* to its major_priority, the packed bytes (sidh, sidl) are the encoding of
\* the header's current major priority, minor priority and source id, so
\* that reg_header holds them and the header equals a Header constructed
\* from its current fields.
C24_SetterRepacks ==
    hop.op = "major_priority" =>
        /\ header.sidh = MakeSidh(header.major, header.minor, header.can_id)
        /\ header.sidl = MakeSidl(header.can_id)
        /\ HeaderEq(header, HeaderNew(header.major, header.minor, header.can_id))
        /\ ValidCanId(header.can_id) =>
              /\ header.sidh = 64 * header.major + 16 * header.minor + header.can_id \div 8
              /\ header.sidl = 32 * (header.can_id % 8)
              /\ RegHeader(header) = [kind |-> "bytes", val |-> <<header.sidh, header.sidl>>]

C26_TokenizerAgrees ==
    (fin = NoFrame /\ frames # NoResult) =>
        /\ Tokenize(buffer, 1) = FindAll(buffer, 1)
        /\ frames.kind = "list" => Len(frames.val) = Len(Tokenize(buffer, 1))

\* ":S:S0FE0N0D;": the attempt at the first ":S" fails, the second succeeds
C26_Witness ==
    /\ buffer = <<58, 83, 58, 83, 48, 70, 69, 48, 78, 48, 68, 59>>
    /\ frames.kind = "list"
    /\ Len(frames.val) = 1
    /\ Tokenize(buffer, 1) = <<<<<<48, 70, 69, 48>>, <<78>>, <<48, 68>>>>>>

\* C28: the transport handler buffers received bytes until the scanner
\* reports a complete frame: a frame whose text arrives split across two
\* consecutive recv chunks (each at most 32 bytes) is eventually decoded and
\* logged by CBusTCPHandler.handle.
C28_SplitFrameLogged ==
    [](( /\ hop.op = "handle"
         /\ Len(todo) = 2
         /\ Len(todo[1]) <= RecvSize /\ Len(todo[2]) <= RecvSize
         /\ hop.cut < Len(Strip(hop.text))
         /\ parse_from_network(hop.text).kind = "list"
         /\ Len(parse_from_network(hop.text).val) = 1 )
       => <>(\E i \in 1..Len(scans) : scans[i] = <<73, 78, 32, 58, 32>> \o MpiFrameStr(parse_from_network(hop.text).val[1])))

\* C29: every Frame.make_* factory that carries a message returns a non-RTR
\* frame whose header has major priority NORMAL, the given can_id as source
\* id, and as minor priority the default minor priority of the opcode of the
\* message it carries; so do make_event_read_resp (ENRSP) and
\* make_event_value_read_resp (NEVAL), which read the priority of NUMEV.
C29_FactoryHeader ==
    (hop.op = "make_frame" /\ fin.kind = "Frame") =>
        /\ ~fin.rtr
        /\ fin.message.kind = "Message"
        /\ fin.header.kind = "Header"
        /\ fin.header.major = NORMAL
        /\ fin.header.can_id = hop.can_id
        /\ fin.header.minor = (CHOOSE o \in OpCode : o.value = fin.message.opcode).minor
        /\ NetEncodedFrame(fin).kind = "bytes" => NetEncodedFrame(fin).val[7] = 78

\* make_event_read_resp(127, 10, 10, 0, 16), whose message is ENRSP
C29_Witness ==
    /\ hop.op = "make_frame"
    /\ mop.op = "make_event_read_resp"
    /\ mop.args = <<10, 10, 0, 16>>
    /\ hop.can_id = MaxCanId
    /\ fin.kind = "Frame"
    /\ fin.message.opcode = 242
    /\ fin.header.minor = MIN_LOW

\* C30: whatever the buffer was, every frame returned by
\* Frame.from_network_bytes has a message (never None) whose opcode is in the
\* catalog and whose payload has that opcode's byte_count bytes, and a header
\* whose source id is in 0..127 and whose packed low byte has its low 5 bits
\* zero.
C30_DecodedFramesWellFormed ==
    (fin = NoFrame /\ frames.kind = "list") =>
        \A i \in 1..Len(frames.val) :
            LET f == frames.val[i]
            IN  /\ f.kind = "Frame"
                /\ f.message.kind = "Message"
                /\ \E o \in OpCode : o.value = f.message.opcode
                /\ Len(f.message.data) = f.message.opcode \div 32
                /\ f.header.kind = "Header"
                /\ f.header.can_id \in 0..127
                /\ f.header.sidl % 32 = 0
                /\ f.header.sidl = (f.header.can_id % 8) * 32

\* "x:S0FFFN0D;": the header text 0FFF has the low 5 bits of its low byte set
C30_Witness ==
    /\ buffer = <<120, 58, 83, 48, 70, 70, 70, 78, 48, 68, 59>>
    /\ frames.kind = "list"
    /\ Len(frames.val) = 1
    /\ frames.val[1].header.can_id = 127
    /\ frames.val[1].header.sidl = 224
    /\ frames.val[1].message.opcode = 13

====
